---------------------------- MODULE Spec2Model ----------------------------
(***************************************************************************)
(* State-machine model of the stock-watcher core: the SQLite time-series   *)
(* store (DatabaseService), the options-volume provider, the polling loop  *)
(* and fetch cycle of OptionsVolumeService, and the alert condition of     *)
(* NotificationService.                                                    *)
(*                                                                         *)
(* Every await of the source is a step boundary: a step is the native      *)
(* effect of the awaited call (a statement run by SQLite, a key read from  *)
(* or written to AsyncStorage) together with the synchronous JavaScript    *)
(* continuation that follows it, up to the next await.                     *)
(*                                                                         *)
(* Times are epoch milliseconds.  Call/put ratios are kept in hundredths   *)
(* (toFixed(2) of the source), so that all arithmetic is on integers.      *)
(***************************************************************************)
EXTENDS Integers, Sequences, FiniteSets, TLC

----------------------------------------------------------------------------
(* Bounds of the model *)

\* fetch cycles that can be in flight at once
MaxCycles == 2
\* callers of the store's public operations that can be in flight at once
MaxClients == 2
\* rows of a batch handed to saveOptionsVolumeBatch by a store client
MaxBatch == 2
\* clock advances in one behaviour
MaxTicks == 1
\* listeners of the interval setting that can wait on AsyncStorage at once
MaxTasks == 1
MaxItems == 1

----------------------------------------------------------------------------
(* Program constants *)

MINUTE == 60 * 1000
HOUR == 60 * MINUTE
DAY == 24 * HOUR

\* const DEFAULT_INTERVAL = 1 * 60 * 1000;
DEFAULT_INTERVAL == 1 * 60 * 1000
\* Date.now() - (7 * 24 * 60 * 60 * 1000) in purgeOldData
RETENTION == 7 * 24 * 60 * 60 * 1000
\* endTime - (60 * 60 * 1000) in checkVolumeAlerts
ALERT_WINDOW == 60 * 60 * 1000

\* the value of an optional argument that was not passed, and of a key that
\* is not in AsyncStorage
Null == -1

Symbols == {"AAPL", "MSFT"}

\* epoch time at which a behaviour starts
StartTime == 10 * DAY
\* the amounts by which the clock advances
ShortStep == 30 * MINUTE
LongStep == 8 * DAY

----------------------------------------------------------------------------
(* Samples (OptionsVolumeData) and rows of option_volume_history *)

\* parseFloat((callVolume / putVolume).toFixed(2)), in hundredths
RatioOf(callVolume, putVolume) ==
    (callVolume * 200 + putVolume) \div (2 * putVolume)

\* new Date(ts).toISOString().split('T')[0]: the UTC day of a timestamp
DateOf(ts) == ts \div DAY

\* the volumes getDummyOptionsVolume can draw (a few of the random draws)
Volumes ==
    { [callVolume |-> 10000, putVolume |-> 10000,
       callOpenInterest |-> 20000, putOpenInterest |-> 15000],
      [callVolume |-> 35000, putVolume |-> 10000,
       callOpenInterest |-> 30000, putOpenInterest |-> 25000] }

\* getDummyOptionsVolume: a sample of symbol with the drawn volumes, stamped
\* with the current time
DummySample(symbol, v, time) ==
    [ symbol |-> symbol,
      date |-> DateOf(time),
      callVolume |-> v.callVolume,
      putVolume |-> v.putVolume,
      callOpenInterest |-> v.callOpenInterest,
      putOpenInterest |-> v.putOpenInterest,
      callPutRatio |-> RatioOf(v.callVolume, v.putVolume),
      timestamp |-> time ]

\* the seven bound arguments of INSERT OR REPLACE: a row.  copy tells apart
\* rows that hold the same (symbol, timestamp): the table's id column.
RowOf(data, copy) ==
    [ symbol |-> data.symbol,
      timestamp |-> data.timestamp,
      call_volume |-> data.callVolume,
      put_volume |-> data.putVolume,
      call_open_interest |-> data.callOpenInterest,
      put_open_interest |-> data.putOpenInterest,
      call_put_ratio |-> data.callPutRatio,
      copy |-> copy ]

\* results.map(row => ...) of getOptionsVolumeHistory
SampleOf(row) ==
    [ symbol |-> row.symbol,
      date |-> DateOf(row.timestamp),
      callVolume |-> row.call_volume,
      putVolume |-> row.put_volume,
      callOpenInterest |-> row.call_open_interest,
      putOpenInterest |-> row.put_open_interest,
      callPutRatio |-> row.call_put_ratio,
      timestamp |-> row.timestamp ]

SameKey(row, symbol, timestamp) ==
    row.symbol = symbol /\ row.timestamp = timestamp

\* a statement that adds a row and keeps the rows already there
InsertPlain(rows, data) ==
    rows \cup { RowOf(data, 1 + Cardinality({ r \in rows :
                    SameKey(r, data.symbol, data.timestamp) })) }

\* a statement that keeps the row already there on a conflict
InsertOrIgnore(rows, data) ==
    IF \E r \in rows : SameKey(r, data.symbol, data.timestamp)
    THEN rows
    ELSE rows \cup { RowOf(data, 1) }

\* INSERT OR REPLACE under UNIQUE(symbol, timestamp): the rows in conflict
\* with the new one are deleted, then the new row is inserted
InsertOrReplace(rows, data) ==
    { r \in rows : ~SameKey(r, data.symbol, data.timestamp) }
        \cup { RowOf(data, 1) }

\* DELETE ... WHERE timestamp <= ?
DeleteUpTo(rows, cutoff) ==
    { r \in rows : ~(r.timestamp <= cutoff) }

\* DELETE FROM option_volume_history WHERE timestamp < ?
DeleteOlderThan(rows, cutoff) ==
    { r \in rows : ~(r.timestamp < cutoff) }

\* the rows a SELECT of getOptionsVolumeHistory matches; a bound is part of
\* the WHERE clause only if it is truthy (passed and not 0)
Truthy(n) == n # Null /\ n # 0

SelectRows(rows, symbol, startTime, endTime) ==
    { r \in rows :
        /\ r.symbol = symbol
        /\ (Truthy(startTime) => r.timestamp >= startTime)
        /\ (Truthy(endTime) => r.timestamp <= endTime) }

\* ORDER BY timestamp ASC (rows of one timestamp in id order)
RECURSIVE OrderByTimestamp(_)
OrderByTimestamp(rows) ==
    IF rows = {} THEN << >>
    ELSE LET first == CHOOSE r \in rows : \A q \in rows :
                         \/ r.timestamp < q.timestamp
                         \/ (r.timestamp = q.timestamp /\ r.copy <= q.copy)
         IN  << first >> \o OrderByTimestamp(rows \ {first})

MapSamples(rowSeq) == [ i \in 1..Len(rowSeq) |-> SampleOf(rowSeq[i]) ]

----------------------------------------------------------------------------
(* Processes *)

\* fetch cycles of OptionsVolumeService (invocations of fetchOptionsVolumeData)
Cycles == 1..MaxCycles
\* other callers of the store's public operations
Clients == (MaxCycles + 1)..(MaxCycles + MaxClients)
Procs == Cycles \cup Clients

VARIABLES
    now,            \* Date.now()
    ticks,          \* clock advances so far
    db,             \* the rows of option_volume_history
    database,       \* DatabaseService.database is not null
    initialized,    \* DatabaseService.initialized
    call,           \* per process: its call of a store operation
    lastWrite,      \* per (symbol, timestamp) key: the sample last written
                    \* to it and not deleted since (history variable)
    averages        \* the rows of moving_averages

clockVars == << now, ticks >>
storeVars == << db, database, initialized, call, lastWrite, averages >>

----------------------------------------------------------------------------
(* DatabaseService *)

IdleCall ==
    [ op |-> "none", pc |-> "idle", data |-> << >>, idx |-> 0,
      symbol |-> "", startTime |-> Null, endTime |-> Null, cutoff |-> 0,
      result |-> << >>, ret |-> "none" ]

InFlight(p) == call[p].pc \notin {"idle", "done"}

\* the call has returned to its caller
Returned(c) == [ c EXCEPT !.pc = "done", !.ret = "returned" ]
\* the call has thrown to its caller
Thrown(c) == [ c EXCEPT !.pc = "done", !.ret = "thrown" ]
\* executeSql / executeTransaction: throw new Error('Database not initialized')
NotInitialized(c) == [ c EXCEPT !.pc = "done", !.ret = "notInitialized" ]

\* The synchronous part of a public operation that follows the
\* initialization check, up to its first statement.
\*   saveOptionsVolumeBatch: if (dataArray.length === 0) return;
\*   purgeOldData: const sevenDaysAgo = Date.now() - 7 days
\*   initialize (called by OptionsVolumeService): nothing more to do
EnterBody(c, time) ==
    CASE c.op = "init" -> Returned(c)
      [] c.op = "batch" /\ Len(c.data) = 0 -> Returned(c)
      [] c.op = "purge" -> [ c EXCEPT !.pc = "body", !.cutoff = time - RETENTION ]
      [] OTHER -> [ c EXCEPT !.pc = "body" ]

\* a public operation that goes to its statement without the check
StartUnchecked(op, data, symbol, startTime, endTime, isInit, time) ==
    EnterBody([ IdleCall EXCEPT !.op = op, !.data = data, !.symbol = symbol,
                                !.startTime = startTime, !.endTime = endTime ],
              time)

\* A public operation is called: if (!this.initialized) await this.initialize()
StartCall(op, data, symbol, startTime, endTime, isInit, time) ==
    LET c == [ IdleCall EXCEPT !.op = op, !.data = data, !.symbol = symbol,
                               !.startTime = startTime, !.endTime = endTime ]
    IN  IF isInit THEN EnterBody(c, time) ELSE [ c EXCEPT !.pc = "open" ]

\* lastWrite after a write of data to its key
NoteWrite(lw, data) ==
    [ k \in DOMAIN lw \cup { << data.symbol, data.timestamp >> } |->
        IF k = << data.symbol, data.timestamp >> THEN data ELSE lw[k] ]

\* lastWrite after the rows older than cutoff are deleted
NoteDelete(lw, cutoff) ==
    [ k \in { q \in DOMAIN lw : ~(q[2] < cutoff) } |-> lw[k] ]

\* initialize: this.database = await SQLite.openDatabaseAsync(...)
DbOpen(p) ==
    /\ call[p].pc = "open"
    /\ \E ok \in BOOLEAN :
         IF ok
         THEN /\ database' = TRUE
              /\ call' = [ call EXCEPT ![p].pc = "schema" ]
         ELSE /\ call' = [ call EXCEPT ![p] = Thrown(@) ]
              /\ UNCHANGED database
    /\ UNCHANGED << db, initialized, lastWrite >>

\* initialize: the three execAsync(CREATE ... IF NOT EXISTS), then
\* this.initialized = true, then purgeOldData() is called
DbSchema(p) ==
    /\ call[p].pc = "schema"
    /\ \E ok \in BOOLEAN :
         IF ok
         THEN /\ initialized' = TRUE
              /\ call' = [ call EXCEPT ![p].pc = "initpurge",
                                       ![p].cutoff = now - RETENTION ]
         ELSE /\ call' = [ call EXCEPT ![p] = Thrown(@) ]
              /\ UNCHANGED initialized
    /\ UNCHANGED << db, database, lastWrite >>

\* purgeOldData as called by initialize: the DELETE; its error is caught and
\* logged; then initialize returns into the operation that awaited it
DbInitPurge(p) ==
    /\ call[p].pc = "initpurge"
    /\ \E ok \in BOOLEAN :
         IF ok
         THEN /\ db' = DeleteOlderThan(db, call[p].cutoff)
              /\ lastWrite' = NoteDelete(lastWrite, call[p].cutoff)
         ELSE UNCHANGED << db, lastWrite >>
    /\ call' = [ call EXCEPT ![p] = EnterBody(@, now) ]
    /\ UNCHANGED << database, initialized >>

\* the statement of one row, as saveOptionsVolumeData and
\* saveOptionsVolumeBatch prepare it
WriteRow(rows, data) == InsertOrReplace(rows, data)

\* saveOptionsVolumeData: executeSql(INSERT OR REPLACE ...), errors rethrown
DbSave(p) ==
    /\ call[p].pc = "body" /\ call[p].op = "save"
    /\ IF ~database
       THEN /\ call' = [ call EXCEPT ![p] = NotInitialized(@) ]
            /\ UNCHANGED << db, lastWrite >>
       ELSE \E ok \in BOOLEAN :
              IF ok
              THEN /\ db' = WriteRow(db, call[p].data[1])
                   /\ lastWrite' = NoteWrite(lastWrite, call[p].data[1])
                   /\ call' = [ call EXCEPT ![p] = Returned([ @ EXCEPT !.idx = 1 ]) ]
              ELSE /\ call' = [ call EXCEPT ![p] = Thrown(@) ]
                   /\ UNCHANGED << db, lastWrite >>
    /\ UNCHANGED << database, initialized >>

\* a step of executeTransaction whose statement failed, with idx rows of the
\* batch written before it: the error is rethrown and nothing is undone
FailedBatch(c) == Thrown(c)

\* saveOptionsVolumeBatch -> executeTransaction: one statement of
\*   for (const statement of sqlStatements) await this.executeSql(...)
DbBatchRow(p) ==
    /\ call[p].pc = "body" /\ call[p].op = "batch"
    /\ IF ~database
       THEN /\ call' = [ call EXCEPT ![p] = NotInitialized(@) ]
            /\ UNCHANGED << db, lastWrite >>
       ELSE \E ok \in BOOLEAN :
              IF ok
              THEN LET i == call[p].idx + 1 IN
                   /\ db' = WriteRow(db, call[p].data[i])
                   /\ lastWrite' = NoteWrite(lastWrite, call[p].data[i])
                   /\ call' = [ call EXCEPT ![p] =
                                  IF i = Len(@.data)
                                  THEN Returned([ @ EXCEPT !.idx = i ])
                                  ELSE [ @ EXCEPT !.idx = i ] ]
              ELSE /\ call' = [ call EXCEPT ![p] = FailedBatch(@) ]
                   /\ UNCHANGED << db, lastWrite >>
    /\ UNCHANGED << database, initialized >>

\* getOptionsVolumeHistory: getAllAsync(SELECT ...); an error is caught and
\* [] is returned
HistoryOf(rows, symbol, startTime, endTime) ==
    MapSamples(OrderByTimestamp(SelectRows(rows, symbol, startTime, endTime)))

DbQuery(p) ==
    /\ call[p].pc = "body" /\ call[p].op = "query"
    /\ \E ok \in BOOLEAN :
         call' = [ call EXCEPT ![p] = Returned([ call[p] EXCEPT !.result =
                     IF ok /\ database
                     THEN HistoryOf(db, call[p].symbol, call[p].startTime,
                                    call[p].endTime)
                     ELSE << >> ]) ]
    /\ UNCHANGED << db, database, initialized, lastWrite >>

\* purgeOldData: executeSql(DELETE ...); an error is caught and logged
DbPurge(p) ==
    /\ call[p].pc = "body" /\ call[p].op = "purge"
    /\ \E ok \in BOOLEAN :
         IF ok /\ database
         THEN /\ db' = DeleteOlderThan(db, call[p].cutoff)
              /\ lastWrite' = NoteDelete(lastWrite, call[p].cutoff)
         ELSE UNCHANGED << db, lastWrite >>
    /\ call' = [ call EXCEPT ![p] = Returned(@) ]
    /\ UNCHANGED << database, initialized >>

\* a step of the store on behalf of process p
StoreStep(p) ==
    \/ DbOpen(p)
    \/ DbSchema(p)
    \/ DbInitPurge(p)
    \/ DbSave(p)
    \/ DbBatchRow(p)
    \/ DbQuery(p)
    \/ DbPurge(p)

----------------------------------------------------------------------------
(* AsyncStorage, SettingsService and the private state of
   OptionsVolumeService *)

VARIABLES
    watched,                \* AsyncStorage 'options_watched_symbols'
    backgroundEnabled,      \* AsyncStorage 'options_background_enabled' is 'true'
    notificationsEnabled,   \* AsyncStorage 'options_notifications_enabled' is 'true'
    lastUpdate,             \* AsyncStorage 'options_last_update', Null if unset
    dataProvider,           \* AsyncStorage 'settings_data_provider'
    apiKey,                 \* AsyncStorage 'settings_tiingo_api_key'
    updateInterval,         \* the polling-interval setting in minutes, Null if unset
    permissionGranted,      \* _notificationsPermissionGranted
    backgroundTimerId,      \* _backgroundTimerId, Null if null
    timers,                 \* the interval timers that are armed: [id, period]
    cyc,                    \* per fetch cycle: its position and what it did
    tasks,                  \* the listeners of the interval setting that wait
                            \* for isBackgroundEnabled()
    alertInput,             \* the argument of a call of checkAlertCondition
    shouldAlert,            \* what the call returned: "none" before it returns
    lastOp                  \* the operation the last step belonged to

settingVars == << watched, backgroundEnabled, notificationsEnabled,
                  dataProvider, apiKey, updateInterval, permissionGranted >>
loopVars == << backgroundTimerId, timers >>
alertVars == << alertInput, shouldAlert >>

VARIABLES
    currentProvider,   \* StockService: _currentProvider ("null", "dummy", "tiingo")
    isInitialized,     \* StockService: _isInitialized
    req                \* per client: its call of StockService or SettingsService

stockVars == << currentProvider, isInitialized, req >>

VARIABLES
    wl,                \* per client: its call of addWatchedSymbol or removeWatchedSymbol
    seen,              \* what the suspended listeners of the interval setting
                       \* have read of the background flag, oldest first
    sset,              \* per client: its call of a setter of SettingsService
    volumeEnabled,     \* AsyncStorage: settings_options_volume_enabled
    boot,              \* per client: its call of OptionsVolumeService.initialize()
    ovs,               \* OptionsVolumeService: _isInitialized, and what its
                       \* initialize() has set up so far
    screen             \* the Watchlist screen

appVars == << wl, seen, sset, volumeEnabled, boot, ovs, screen >>

vars == << now, ticks, db, database, initialized, call, lastWrite, averages,
           currentProvider, isInitialized, req,
           watched, backgroundEnabled, notificationsEnabled, lastUpdate,
           dataProvider, apiKey, updateInterval, permissionGranted,
           backgroundTimerId, timers, cyc, tasks, alertInput, shouldAlert,
           lastOp, wl, seen, sset, volumeEnabled, boot, ovs, screen >>

----------------------------------------------------------------------------
(* OptionsVolumeProvider *)

\* the value of a sample that is null
NoData ==
    [ symbol |-> "", date |-> Null, callVolume |-> 0, putVolume |-> 0,
      callOpenInterest |-> 0, putOpenInterest |-> 0, callPutRatio |-> 0,
      timestamp |-> Null ]

\* SettingsService.getDataProvider: (provider as DataProvider) || DataProvider.DUMMY
GetDataProvider(stored) == IF stored = "unset" THEN "dummy" ELSE stored

\* SettingsService.isUsingDummyProvider
IsUsingDummyProvider(stored) == GetDataProvider(stored) = "dummy"

\* !apiKey of getTiingoOptionsVolume: null and the empty string are falsy
KeyIsFalsy(key) == key \in {"null", ""}

\* getTiingoOptionsVolume: if (!apiKey) return null; else the simulated response
GetTiingoOptionsVolume(symbol, v, key, time) ==
    IF KeyIsFalsy(key) THEN NoData ELSE DummySample(symbol, v, time)

\* getOptionsVolume
GetOptionsVolume(symbol, v, stored, key, time) ==
    IF IsUsingDummyProvider(stored)
    THEN DummySample(symbol, v, time)
    ELSE GetTiingoOptionsVolume(symbol, v, key, time)

\* getBatchOptionsVolume: the samples of the symbols, in order, nulls dropped
GetBatchOptionsVolume(symbols, draw, stored, key, time) ==
    SelectSeq([ i \in 1..Len(symbols) |->
                  GetOptionsVolume(symbols[i], draw[i], stored, key, time) ],
              LAMBDA d : d # NoData)

----------------------------------------------------------------------------
(* OptionsVolumeService: the fetch cycle *)

IdleCycle ==
    [ pc |-> "idle",        \* where the invocation of fetchOptionsVolumeData is
      origin |-> "none",    \* what started it: "start" or "timer"
      symbols |-> << >>,    \* const symbols
      data |-> << >>,       \* const data
      k |-> 0,              \* index of the symbol whose alerts are checked
      stamp |-> Null,       \* Date.now() of the last-update write
      fetched |-> FALSE,    \* the provider was called
      emits |-> 0,          \* 'options-data-updated' events emitted
      payload |-> << >>,    \* payload of the event
      alerts |-> {},        \* alerts sent: [symbol, timestamp]
      updated |-> FALSE,    \* wrote 'options_last_update'
      stopSeen |-> FALSE ]  \* stopBackgroundFetch ran while the invocation had
                            \* not yet got its data (history field)

CycleInFlight(c) == cyc[c].pc # "idle"

FreeSlots == { c \in Cycles : ~CycleInFlight(c) }

\* fetchOptionsVolumeData() is called: it runs up to its first await,
\* getWatchedSymbols() -> AsyncStorage.getItem
NewCycle(cycles, origin) ==
    LET c == CHOOSE x \in FreeSlots : \A y \in FreeSlots : x <= y IN
    [ cycles EXCEPT ![c] = [ IdleCycle EXCEPT !.pc = "symbols", !.origin = origin ] ]

BeginCycle(origin) ==
    /\ FreeSlots # {}
    /\ cyc' = NewCycle(cyc, origin)
    /\ UNCHANGED call

\* the async function returns: the invocation is over
EndCycle(c) ==
    /\ cyc' = [ cyc EXCEPT ![c] = IdleCycle ]
    /\ call' = [ call EXCEPT ![c] = IdleCall ]

\* a cycle that goes on with whatever list it read
NeverNothingWatched(symbols) == FALSE

\* if (symbols.length === 0) return;
NothingWatched(symbols) == Len(symbols) = 0

\* getWatchedSymbols resolves (a storage error is caught and gives []);
\* an empty list ends the cycle
CycSymbols(c) ==
    /\ cyc[c].pc = "symbols"
    /\ \E ok \in BOOLEAN :
         LET symbols == IF ok THEN watched ELSE << >> IN
         IF NothingWatched(symbols)
         THEN EndCycle(c)
         ELSE /\ cyc' = [ cyc EXCEPT ![c].symbols = symbols, ![c].pc = "provider" ]
              /\ UNCHANGED call
    /\ lastOp' = "step"
    /\ UNCHANGED << clockVars, tasks, alertVars, db, database, initialized, lastWrite,
                    averages, stockVars, appVars,
                    settingVars, lastUpdate, loopVars >>

\* provider.getBatchOptionsVolume(symbols) resolves, and
\* dbService.saveOptionsVolumeBatch(data) is called
CycProvider(c) ==
    /\ cyc[c].pc = "provider"
    /\ \E v \in Volumes :
         LET draw == [ i \in 1..Len(cyc[c].symbols) |-> v ]
             data == GetBatchOptionsVolume(cyc[c].symbols, draw,
                                           dataProvider, apiKey, now) IN
         /\ cyc' = [ cyc EXCEPT ![c].data = data, ![c].fetched = TRUE,
                                ![c].pc = "save" ]
         /\ call' = [ call EXCEPT ![c] =
                        StartCall("batch", data, "", Null, Null, initialized, now) ]
    /\ lastOp' = "step"
    /\ UNCHANGED << clockVars, tasks, alertVars, db, database, initialized, lastWrite,
                    averages, stockVars, appVars,
                    settingVars, lastUpdate, loopVars >>

\* the statements after the batch write run without waiting for it
BatchNotAwaited(c) == TRUE

\* await dbService.saveOptionsVolumeBatch(data): the call has settled
BatchAwaited(c) == call[c].pc = "done"

\* an event that carries the first sample only
EmitFirstSample(cy) ==
    [ cy EXCEPT !.emits = @ + 1,
                !.payload = IF cy.data = << >> THEN << >> ELSE << cy.data[1] >> ]

\* optionsEvents.emit('options-data-updated', data)
EmitUpdated(cy) == [ cy EXCEPT !.emits = @ + 1, !.payload = cy.data ]

\* the batch write has settled: if it threw, the error is caught and the
\* cycle ends; else the event is emitted and
\* AsyncStorage.setItem(LAST_UPDATE, Date.now()) is called
CycSaved(c) ==
    /\ cyc[c].pc = "save"
    /\ BatchAwaited(c)
    /\ IF call[c].ret \in {"thrown", "notInitialized"}
       THEN EndCycle(c)
       ELSE /\ cyc' = [ cyc EXCEPT ![c] =
                          [ EmitUpdated(@) EXCEPT !.pc = "lastUpdate", !.stamp = now ] ]
            /\ UNCHANGED call
    /\ lastOp' = "step"
    /\ UNCHANGED << clockVars, tasks, alertVars, db, database, initialized, lastWrite,
                    averages, stockVars, appVars,
                    settingVars, lastUpdate, loopVars >>

\* checkVolumeAlerts(symbol) is called: getOptionsVolumeHistory of the last hour
AlertQuery(symbol, isInit, time) ==
    StartCall("query", << >>, symbol, time - ALERT_WINDOW, time, isInit, time)

\* the write of the last-update time settles (an error is caught and ends
\* the cycle), and areNotificationsEnabled() is called
CycLastUpdate(c) ==
    /\ cyc[c].pc = "lastUpdate"
    /\ \E ok \in BOOLEAN :
         IF ok
         THEN /\ lastUpdate' = cyc[c].stamp
              /\ cyc' = [ cyc EXCEPT ![c].updated = TRUE, ![c].pc = "notifications" ]
              /\ UNCHANGED call
         ELSE /\ EndCycle(c)
              /\ UNCHANGED lastUpdate
    /\ lastOp' = "step"
    /\ UNCHANGED << clockVars, tasks, alertVars, db, database, initialized, lastWrite,
                    averages, stockVars, appVars,
                    settingVars, loopVars >>

\* alerts are checked whatever the setting and the permission
AlertingAlways(enabled, granted) == TRUE

\* if (notificationsEnabled && _notificationsPermissionGranted)
AlertingOn(enabled, granted) == enabled /\ granted

\* areNotificationsEnabled resolves, its read of the setting having one of
\* the outcomes (false on a storage error); with notifications on and
\* permission granted the alerts of the first symbol are checked, else
\* the cycle ends
CycNotificationsRead(c, outcomes) ==
    /\ cyc[c].pc = "notifications"
    /\ \E ok \in outcomes :
         IF ok /\ AlertingOn(notificationsEnabled, permissionGranted)
         THEN /\ cyc' = [ cyc EXCEPT ![c].pc = "alerts", ![c].k = 1 ]
              /\ call' = [ call EXCEPT ![c] =
                             AlertQuery(cyc[c].symbols[1], initialized, now) ]
         ELSE EndCycle(c)
    /\ lastOp' = "step"
    /\ UNCHANGED << clockVars, tasks, alertVars, db, database, initialized, lastWrite,
                    averages, stockVars, appVars,
                    settingVars, lastUpdate, loopVars >>

\* areNotificationsEnabled resolves
CycNotifications(c) == CycNotificationsRead(c, BOOLEAN)

----------------------------------------------------------------------------
(* NotificationService *)

\* 3.0 and 0.5, in hundredths
BullishRatio == 300
BearishRatio == 50

Abs(n) == IF n < 0 THEN -n ELSE n

\* Math.abs(((latest.callPutRatio - previous.callPutRatio)
\*            / previous.callPutRatio) * 100) > 50
\* A division by zero gives Infinity (or NaN for 0 / 0, which compares false).
RatioSwing(previous, latest) ==
    IF previous.callPutRatio = 0
    THEN latest.callPutRatio # 0
    ELSE Abs(latest.callPutRatio - previous.callPutRatio) * 100
             > 50 * Abs(previous.callPutRatio)

\* latest.callPutRatio > 3.0 && previous.callPutRatio < 3.0
CrossedBullish(previous, latest) ==
    latest.callPutRatio > BullishRatio /\ previous.callPutRatio < BullishRatio

\* latest.callPutRatio < 0.5 && previous.callPutRatio > 0.5
CrossedBearish(previous, latest) ==
    latest.callPutRatio < BearishRatio /\ previous.callPutRatio > BearishRatio

\* ((latestTotalVolume - previousTotalVolume) / previousTotalVolume) * 100 > 100
VolumeSurge(previous, latest) ==
    LET latestTotalVolume == latest.callVolume + latest.putVolume
        previousTotalVolume == previous.callVolume + previous.putVolume
    IN  IF previousTotalVolume = 0
        THEN latestTotalVolume > 0
        ELSE (latestTotalVolume - previousTotalVolume) * 100
                 > 100 * previousTotalVolume

\* checkAlertCondition(data)
CheckAlertCondition(data) ==
    IF Len(data) < 2 THEN FALSE
    ELSE LET latest == data[Len(data)]
             previous == data[Len(data) - 1]
         IN  \/ RatioSwing(previous, latest)
             \/ CrossedBullish(previous, latest)
             \/ CrossedBearish(previous, latest)
             \/ VolumeSurge(previous, latest)

\* checkVolumeAlerts after its query: the alerts to send for recentData
AlertsFor(symbol, recentData) ==
    IF Len(recentData) >= 2 /\ CheckAlertCondition(recentData)
    THEN { [ symbol |-> symbol, timestamp |-> recentData[Len(recentData)].timestamp ] }
    ELSE {}

\* the query of checkVolumeAlerts(symbols[k]) settles (an error is caught),
\* the alert is sent if the condition holds (an error of the send is caught),
\* and the next symbol is checked or the cycle ends
CycAlerts(c) ==
    /\ cyc[c].pc = "alerts"
    /\ call[c].pc = "done"
    /\ \E ok \in BOOLEAN :
         LET k == cyc[c].k
             recentData == IF call[c].ret = "returned" THEN call[c].result ELSE << >>
             sent == IF ok THEN AlertsFor(cyc[c].symbols[k], recentData) ELSE {}
         IN  IF k < Len(cyc[c].symbols)
             THEN /\ cyc' = [ cyc EXCEPT ![c].alerts = @ \cup sent, ![c].k = k + 1 ]
                  /\ call' = [ call EXCEPT ![c] =
                                 AlertQuery(cyc[c].symbols[k + 1], initialized, now) ]
             ELSE EndCycle(c)
    /\ lastOp' = "step"
    /\ UNCHANGED << clockVars, tasks, alertVars, db, database, initialized, lastWrite,
                    averages, stockVars, appVars,
                    settingVars, lastUpdate, loopVars >>

----------------------------------------------------------------------------
(* OptionsVolumeService: the polling loop *)

\* a clearInterval that cancels nothing
ClearNothing(armed, id) == armed

\* clearInterval(id)
ClearInterval(armed, id) == { t \in armed : t.id # id }

\* the id setInterval returns: one that no armed timer has
FreshTimerId(armed) ==
    CHOOSE i \in 1..(Cardinality(armed) + 1) :
        /\ \A t \in armed : t.id # i
        /\ \A j \in 1..(i - 1) : \E t \in armed : t.id = j

\* the period startBackgroundFetch passes to setInterval
TimerPeriod == DEFAULT_INTERVAL

\* the timers armed after stopBackgroundFetch: a stop that forgets the timer
StopKeepsTimer(armed, id) == armed

\* the timers armed after stopBackgroundFetch
StopTimers(armed, id) == ClearInterval(armed, id)

\* startBackgroundFetch without its immediate first fetch
StartWithoutFetch == UNCHANGED << cyc, call >>

\* startBackgroundFetch: fetchOptionsVolumeData() (not awaited)
StartFirstFetch == BeginCycle("start")

\* startBackgroundFetch: clear the timer there is, begin a fetch cycle, arm
\* a new repeating timer
StartLoop ==
    /\ StartFirstFetch
    /\ LET armed == ClearInterval(timers, backgroundTimerId)
           id == FreshTimerId(armed)
       IN  /\ timers' = armed \cup { [ id |-> id, period |-> TimerPeriod ] }
           /\ backgroundTimerId' = id

\* the fetch cycles as a stop leaves them: untouched, but for the note of
\* the stop in those that have not yet got their data
SeenByStop(cycles) ==
    [ c \in Cycles |->
        IF cycles[c].pc \in {"symbols", "provider"}
        THEN [ cycles[c] EXCEPT !.stopSeen = TRUE ] ELSE cycles[c] ]

\* stopBackgroundFetch: if (_backgroundTimerId) { clearInterval; = null }
StopLoop ==
    /\ timers' = IF backgroundTimerId # Null
                 THEN StopTimers(timers, backgroundTimerId) ELSE timers
    /\ backgroundTimerId' = Null
    /\ cyc' = SeenByStop(cyc)
    /\ UNCHANGED call

\* stopBackgroundFetch(); startBackgroundFetch(); in one synchronous run
RestartLoop ==
    /\ FreeSlots # {}
    /\ cyc' = NewCycle(SeenByStop(cyc), "start")
    /\ LET armed == IF backgroundTimerId # Null
                    THEN StopTimers(timers, backgroundTimerId) ELSE timers
           id == FreshTimerId(armed)
       IN  /\ timers' = armed \cup { [ id |-> id, period |-> TimerPeriod ] }
           /\ backgroundTimerId' = id
    /\ UNCHANGED call

\* OptionsVolumeService.startBackgroundFetch()
StartBackgroundFetch ==
    /\ StartLoop
    /\ lastOp' = "start"
    /\ UNCHANGED << clockVars, tasks, alertVars, db, database, initialized, lastWrite,
                    averages, stockVars, appVars,
                    settingVars, lastUpdate >>

\* OptionsVolumeService.stopBackgroundFetch()
StopBackgroundFetch ==
    /\ StopLoop
    /\ lastOp' = "stop"
    /\ UNCHANGED << clockVars, tasks, alertVars, db, database, initialized, lastWrite,
                    averages, stockVars, appVars,
                    settingVars, lastUpdate >>

\* the callback of an armed interval timer runs: fetchOptionsVolumeData()
TimerFire ==
    /\ \E t \in timers : BeginCycle("timer")
    /\ lastOp' = "tick"
    /\ UNCHANGED << clockVars, tasks, alertVars, db, database, initialized, lastWrite,
                    averages, stockVars, appVars,
                    settingVars, lastUpdate, loopVars >>

----------------------------------------------------------------------------
(* The clock *)

Advance(step) ==
    /\ ticks < MaxTicks
    /\ now' = now + step
    /\ ticks' = ticks + 1
    /\ lastOp' = "step"
    /\ UNCHANGED << storeVars, settingVars, lastUpdate, loopVars, cyc,
                    tasks, alertVars, stockVars, appVars >>

TickShort == Advance(ShortStep)
TickLong == Advance(LongStep)

----------------------------------------------------------------------------
(* The polling loop and its fetch cycles *)

\* what the service-level steps of the store leave alone
StoreFrame ==
    /\ lastOp' = "step"
    /\ UNCHANGED << clockVars, tasks, alertVars, settingVars, lastUpdate, loopVars, cyc,
                    averages, stockVars, appVars >>

InitClock == now = StartTime /\ ticks = 0

\* the store: opened or not
InitStore(opened) ==
    /\ db = {}
    /\ database = opened
    /\ initialized = opened
    /\ call = [ p \in Procs |-> IdleCall ]
    /\ lastWrite = [ k \in {} |-> NoData ]
    /\ averages = {}

InitLoop ==
    /\ backgroundTimerId = Null
    /\ timers = {}
    /\ cyc = [ c \in Cycles |-> IdleCycle ]
    /\ tasks = 0
    /\ lastOp = "step"

InitAlert ==
    /\ alertInput = << >>
    /\ shouldAlert = "none"

\* a client that has no call of StockService or SettingsService under way
IdleReq ==
    [ op |-> "none", pc |-> "idle", arg |-> << >>, provider |-> "null",
      env |-> [ s |-> "none", items |-> << >>, qs |-> << >>, ms |-> << >> ],
      result |-> [ kind |-> "none" ], ret |-> "none" ]

\* StockService before its first use
InitStock ==
    /\ currentProvider = "null"
    /\ isInitialized = FALSE
    /\ req = [ p \in Clients |-> IdleReq ]

\* no call of addWatchedSymbol or removeWatchedSymbol
IdleWl ==
    [ op |-> "none", pc |-> "idle", symbol |-> "", before |-> << >>,
      readOk |-> FALSE, symbols |-> << >>, wrote |-> FALSE,
      data |-> NoData, emitted |-> FALSE, payload |-> << >>,
      at |-> Null ]    \* Date.now() when the call returned (history field)

\* no call of a setter of SettingsService
IdleSet ==
    [ key |-> "none", value |-> "none", pc |-> "idle", written |-> FALSE,
      notified |-> FALSE, reset |-> FALSE, ret |-> "none" ]

\* no call of initialize()
IdleBoot == [ pc |-> "idle", ret |-> "none" ]

\* OptionsVolumeService after its initialize() has run once, or before
InitOvs(opened) ==
    [ isInitialized |-> opened,
      listeners |-> IF opened THEN 1 ELSE 0,   \* setupSettingsListeners() runs
      purges |-> IF opened THEN 1 ELSE 0,      \* scheduleDataPurge() runs
      starts |-> 0 ]                           \* startBackgroundFetch() by initialize

\* AsyncStorage under watchlist_symbols: no item, or a list of symbols
NothingStored == [ present |-> FALSE, symbols |-> << >> ]
StoredList(symbols) == [ present |-> TRUE, symbols |-> symbols ]

\* the Watchlist screen, not mounted
NoScreen ==
    [ mounted |-> FALSE,
      stored |-> NothingStored,          \* AsyncStorage: watchlist_symbols
      watchlistSymbols |-> << >>, \* state of the component
      closure |-> << >>,          \* watchlistSymbols as the effect's callbacks see it
      loaded |-> FALSE,           \* loadWatchlistSymbols() has resolved
      stocks |-> << >>,           \* state: the symbols of the quotes shown
      pending |-> << >>,          \* getBatchQuotes requests in flight
      ticks |-> 0,                \* callbacks of the refresh timer so far
      due |-> 0,                  \* of these, with a non-empty watchlist
      refetched |-> 0 ]           \* of these, that called getBatchQuotes

\* the callers of the services, before any of their calls
InitCallers(opened) ==
    /\ wl = [ p \in Clients |-> IdleWl ]
    /\ seen = << >>
    /\ sset = [ p \in Clients |-> IdleSet ]
    /\ volumeEnabled = FALSE
    /\ boot = [ p \in Clients |-> IdleBoot ]
    /\ ovs = InitOvs(opened)

\* the application around the services, before any of its calls
InitApp(opened) ==
    /\ InitCallers(opened)
    /\ screen = NoScreen

\* the state after OptionsVolumeService.initialize() (the store is opened
\* then) or before it, with polling disabled, over what AsyncStorage holds
\* from earlier runs of the app
InitWith(opened, lists, notifications, providers, keys) ==
    /\ InitClock
    /\ InitStore(opened)
    /\ InitLoop
    /\ InitStock
    /\ InitApp(opened)
    /\ watched \in lists
    /\ backgroundEnabled = FALSE
    /\ notificationsEnabled \in notifications
    /\ permissionGranted = TRUE
    /\ lastUpdate = Null
    /\ dataProvider \in providers
    /\ apiKey \in keys
    /\ updateInterval = Null

\* the steps of fetch cycle c up to the check of the notification setting,
\* with the steps of the store made for it
CycleStep(c) ==
    \/ CycSymbols(c)
    \/ CycProvider(c)
    \/ DbBatchRow(c) /\ StoreFrame
    \/ CycSaved(c)
    \/ CycLastUpdate(c)
    \/ CycNotifications(c)

\* the steps of fetch cycle c that check the alerts
AlertStep(c) ==
    \/ DbQuery(c) /\ StoreFrame
    \/ CycAlerts(c)

(* Spec: the polling loop with fetch cycles that overlap, at most one
   symbol watched, notifications off. *)

Init ==
    /\ InitWith(TRUE, { << >>, << "AAPL" >> }, { FALSE },
                { "unset", "tiingo" }, { "null" })
    /\ InitAlert

Next ==
    \/ StartBackgroundFetch
    \/ StopBackgroundFetch
    \/ TimerFire
    \/ TickShort
    \/ \E c \in Cycles : CycleStep(c)

Spec == Init /\ [][Next]_vars

(* SpecSeq: the polling loop when every fetch cycle ends before the next
   one begins; up to two symbols watched, notifications on or off. *)

NoCycleInFlight == \A c \in Cycles : ~CycleInFlight(c)

InitSeq ==
    /\ InitWith(TRUE, { << >>, << "AAPL" >>, << "AAPL", "MSFT" >> }, BOOLEAN,
                { "unset", "tiingo" }, { "null", "key" })
    /\ InitAlert

NextSeq ==
    \/ NoCycleInFlight /\ StartBackgroundFetch
    \/ StopBackgroundFetch
    \/ NoCycleInFlight /\ TimerFire
    \/ TickShort
    \/ \E c \in Cycles : CycleStep(c) \/ AlertStep(c)

SpecSeq == InitSeq /\ [][NextSeq]_vars

----------------------------------------------------------------------------
(* SpecStore: the store alone, its write operations called by clients that
   overlap. *)

\* the samples a caller can hand to the store at a time
SamplesAt(time) ==
    { DummySample(symbol, v, time) : symbol \in Symbols, v \in Volumes }

\* the arrays of up to MaxBatch samples a caller can hand to the store at a
\* time: samples of one draw, as getBatchOptionsVolume makes them
BatchesAt(time) ==
    UNION { { [ i \in 1..n |-> DummySample(symbols[i], v, time) ] :
                symbols \in [ 1..n -> Symbols ], v \in Volumes } :
            n \in 0..MaxBatch }

\* what a step of a client leaves alone
ClientFrame ==
    /\ lastOp' = "step"
    /\ UNCHANGED << clockVars, tasks, alertVars, db, database, initialized, lastWrite,
                    averages, stockVars, appVars,
                    settingVars, lastUpdate, loopVars, cyc >>

\* dbService.saveOptionsVolumeData(data) is called
ClientSave(p) ==
    /\ ~InFlight(p)
    /\ \E data \in SamplesAt(now) :
         call' = [ call EXCEPT ![p] =
                     StartCall("save", << data >>, "", Null, Null, initialized, now) ]
    /\ ClientFrame

\* dbService.saveOptionsVolumeBatch(dataArray) is called
ClientBatch(p) ==
    /\ ~InFlight(p)
    /\ \E dataArray \in BatchesAt(now) :
         call' = [ call EXCEPT ![p] =
                     StartCall("batch", dataArray, "", Null, Null, initialized, now) ]
    /\ ClientFrame

\* dbService.purgeOldData() is called
ClientPurge(p) ==
    /\ ~InFlight(p)
    /\ call' = [ call EXCEPT ![p] =
                   StartCall("purge", << >>, "", Null, Null, initialized, now) ]
    /\ ClientFrame

InitStoreOnly ==
    /\ InitWith(FALSE, { << >> }, { FALSE }, { "unset" }, { "null" })
    /\ InitAlert

NextStore ==
    \/ \E p \in Clients :
         \/ ClientSave(p)
         \/ ClientBatch(p)
         \/ DbOpen(p) /\ StoreFrame
         \/ DbSchema(p) /\ StoreFrame
         \/ DbInitPurge(p) /\ StoreFrame
         \/ DbSave(p) /\ StoreFrame
         \/ DbBatchRow(p) /\ StoreFrame

SpecStore == InitStoreOnly /\ [][NextStore]_vars

----------------------------------------------------------------------------
(* SpecLoop: the control of the polling loop by the settings, with nothing
   watched. *)

\* the values the interval setting is set to, in minutes
Intervals == { 5, 30 }

\* what a step of the loop control leaves alone
ControlFrame ==
    UNCHANGED << clockVars, alertVars, db, database, initialized, lastWrite,
                 averages, stockVars, appVars,
                 watched, notificationsEnabled, dataProvider, apiKey,
                 permissionGranted, lastUpdate >>

\* SettingsService.setOptionsUpdateInterval(minutes): the write settles, the
\* event is emitted and the listener runs up to its await of
\* isBackgroundEnabled(); an error of the write is rethrown
SetOptionsUpdateInterval(minutes) ==
    /\ tasks < MaxTasks
    /\ \E ok \in BOOLEAN :
         IF ok
         THEN updateInterval' = minutes /\ tasks' = tasks + 1
         ELSE UNCHANGED << updateInterval, tasks >>
    /\ lastOp' = "step"
    /\ UNCHANGED << backgroundEnabled, loopVars, cyc, call >>
    /\ ControlFrame

\* the listener of the interval setting goes on: isBackgroundEnabled() has
\* resolved (false on a storage error); if (isEnabled) { stop; start }
IntervalListener ==
    /\ tasks > 0
    /\ tasks' = tasks - 1
    /\ \E ok \in BOOLEAN :
         IF ok /\ backgroundEnabled
         THEN RestartLoop /\ lastOp' = "start"
         ELSE UNCHANGED << loopVars, cyc, call >> /\ lastOp' = "step"
    /\ UNCHANGED << backgroundEnabled, updateInterval >>
    /\ ControlFrame

\* OptionsVolumeService.setBackgroundEnabled(enabled): the write settles and
\* the loop is started or stopped; an error of the write is caught
SetBackgroundEnabled(enabled) ==
    /\ \E ok \in BOOLEAN :
         IF ok
         THEN /\ backgroundEnabled' = enabled
              /\ IF enabled
                 THEN StartLoop /\ lastOp' = "start"
                 ELSE StopLoop /\ lastOp' = "stop"
         ELSE /\ UNCHANGED << backgroundEnabled, loopVars, cyc, call >>
              /\ lastOp' = "step"
    /\ UNCHANGED << updateInterval, tasks >>
    /\ ControlFrame

InitLoopOnly ==
    /\ InitWith(TRUE, { << >> }, { FALSE }, { "unset" }, { "null" })
    /\ InitAlert

NextLoop ==
    \/ \E enabled \in BOOLEAN : SetBackgroundEnabled(enabled)
    \/ \E minutes \in Intervals : SetOptionsUpdateInterval(minutes)
    \/ IntervalListener
    \/ TimerFire
    \/ \E c \in Cycles : CycSymbols(c)

SpecLoop == InitLoopOnly /\ [][NextLoop]_vars

----------------------------------------------------------------------------
(* SpecAlert: checkAlertCondition on pairs of samples. *)

\* volumes of the samples handed to checkAlertCondition: call/put ratios of
\* 3.00, 3.50, 3.10, 0.50, 0.40, 1.00, 1.20 and 1.67
AlertVolumes ==
    { [ callVolume |-> v[1], putVolume |-> v[2],
        callOpenInterest |-> 20000, putOpenInterest |-> 15000 ] :
      v \in { << 30000, 10000 >>, << 35000, 10000 >>, << 31000, 10000 >>,
              << 10000, 20000 >>, << 10000, 25000 >>, << 10000, 10000 >>,
              << 12000, 10000 >>, << 50000, 30000 >> } }

\* NotificationService.checkAlertCondition(data) is called and returns
CheckAlert ==
    /\ shouldAlert = "none"
    /\ shouldAlert' = IF CheckAlertCondition(alertInput) THEN "alert" ELSE "quiet"
    /\ lastOp' = "step"
    /\ UNCHANGED << clockVars, storeVars, settingVars, lastUpdate, loopVars,
                    cyc, tasks, alertInput, stockVars, appVars >>

InitAlertOnly ==
    /\ InitWith(TRUE, { << >> }, { FALSE }, { "unset" }, { "null" })
    /\ alertInput \in
         { << DummySample("AAPL", p, StartTime - ShortStep),
              DummySample("AAPL", l, StartTime) >> :
           p \in AlertVolumes, l \in AlertVolumes }
    /\ shouldAlert = "none"

NextAlert == CheckAlert

SpecAlert == InitAlertOnly /\ [][NextAlert]_vars

----------------------------------------------------------------------------
(* Properties of the store *)

\* the batch write of call c has settled
BatchSettled(c) == c.op = "batch" /\ c.pc = "done"

\* C1: a batch write is all-or-nothing: when saveOptionsVolumeBatch has
\* settled, either the statement of every sample of the batch has been run
\* or the statement of none has.
C1_BatchAllOrNothing ==
    \A p \in Procs :
        BatchSettled(call[p]) => call[p].idx \in { 0, Len(call[p].data) }

\* a batch of two samples has thrown with the first one written and still
\* stored, and the second one not
C1_PartialBatch ==
    \E p \in Procs :
        /\ BatchSettled(call[p])
        /\ call[p].ret = "thrown"
        /\ Len(call[p].data) = 2
        /\ call[p].idx = 1
        /\ RowOf(call[p].data[1], 1) \in db
        /\ RowOf(call[p].data[2], 1) \notin db

----------------------------------------------------------------------------
(* Properties of the fetch cycle and the polling loop *)

\* the step in which fetch cycle c emits 'options-data-updated'
EmitStep(c) == cyc[c].emits = 0 /\ cyc'[c].emits = 1

\* the step in which fetch cycle c begins, started by origin
BeginStep(c, origin) ==
    /\ ~CycleInFlight(c)
    /\ cyc'[c] = [ IdleCycle EXCEPT !.pc = "symbols", !.origin = origin ]

\* the step begins one fetch cycle started by origin, and no other
BeginsOneCycle(origin) ==
    \E c \in Cycles :
        /\ BeginStep(c, origin)
        /\ \A d \in Cycles \ {c} : cyc'[d] = cyc[d]

\* sample is among the samples a query for its symbol returns
Queried(sample) ==
    LET history == HistoryOf(db, sample.symbol, Null, Null) IN
    \E j \in 1..Len(history) : history[j] = sample

\* a sample of the key of sample is among the samples a query for its
\* symbol returns
KeyQueried(sample) ==
    LET history == HistoryOf(db, sample.symbol, Null, Null) IN
    \E j \in 1..Len(history) : history[j].timestamp = sample.timestamp

\* C3 as stated: whenever a fetch cycle emits 'options-data-updated', every
\* sample of the payload is stored and returned by a query for its symbol.
C3_PayloadStored ==
    [][ \A c \in Cycles :
          EmitStep(c) =>
              \A i \in 1..Len(cyc'[c].payload) : Queried(cyc'[c].payload[i]) ]_vars

\* C3 amended: whenever a fetch cycle emits 'options-data-updated', its
\* batch write has returned with the statement of every sample run, the
\* payload is the batch written, and a query for the symbol of each sample
\* of the payload returns a sample of its timestamp (the sample itself,
\* unless a write of an overlapping cycle to the same key has replaced it).
C3_WriteBeforeEmit ==
    [][ \A c \in Cycles :
          EmitStep(c) =>
              /\ BatchSettled(call[c])
              /\ call[c].ret = "returned"
              /\ call[c].idx = Len(call[c].data)
              /\ cyc'[c].payload = call[c].data
              /\ \A i \in 1..Len(cyc'[c].payload) :
                    KeyQueried(cyc'[c].payload[i]) ]_vars

\* a fetch cycle has emitted a payload of one sample or more that a query
\* returns
C3_Emitted ==
    \E c \in Cycles :
        /\ cyc[c].emits = 1
        /\ Len(cyc[c].payload) >= 1
        /\ \A i \in 1..Len(cyc[c].payload) : Queried(cyc[c].payload[i])

\* C4: a start of the stopped loop begins one fetch cycle in the same step,
\* before any tick, and arms one repeating timer; every tick of the timer
\* begins one further fetch cycle, and the loop is running then.
C4_StartFetchesAtOnce ==
    [][ /\ (lastOp' = "start" /\ backgroundTimerId = Null) =>
              /\ BeginsOneCycle("start")
              /\ backgroundTimerId' # Null
              /\ \E t \in timers' : /\ t.id = backgroundTimerId'
                                    /\ timers' = { t }
        /\ lastOp' = "tick" =>
              /\ BeginsOneCycle("timer")
              /\ backgroundTimerId # Null
              /\ UNCHANGED << backgroundTimerId, timers >> ]_vars

\* a tick has begun a fetch cycle while the cycle the start began is still
\* in flight
C4_TickAfterStart ==
    /\ lastOp = "tick"
    /\ backgroundTimerId # Null
    /\ \E c, d \in Cycles :
         /\ cyc[c].origin = "start" /\ CycleInFlight(c)
         /\ cyc[d].origin = "timer" /\ cyc[d].pc = "symbols"

\* C5: a stop of the loop cancels the timer and leaves the fetch cycles in
\* flight, their store calls and the stored rows as they are; no tick
\* begins a fetch cycle while the loop is stopped; and a fetch cycle that a
\* stop found in flight emits its event only with its batch written.
C5_StopCancelsTimerOnly ==
    [][ /\ lastOp' = "stop" =>
              /\ timers' = {}
              /\ backgroundTimerId' = Null
              /\ \A c \in Cycles :
                    cyc'[c] \in { cyc[c], [ cyc[c] EXCEPT !.stopSeen = TRUE ] }
              /\ UNCHANGED << call, db, lastUpdate >>
        /\ backgroundTimerId = Null =>
              /\ lastOp' # "tick"
              /\ \A c \in Cycles : ~BeginStep(c, "timer")
        /\ \A c \in Cycles :
              (cyc[c].stopSeen /\ EmitStep(c)) =>
                  /\ call[c].ret = "returned"
                  /\ call[c].idx = Len(cyc[c].data)
                  /\ cyc'[c].payload = cyc[c].data ]_vars

\* the loop is stopped, and a fetch cycle that the stop found in flight
\* before it had its data has since stored its samples and emitted them
C5_CompletedAfterStop ==
    /\ backgroundTimerId = Null
    /\ timers = {}
    /\ \E c \in Cycles :
         /\ cyc[c].stopSeen
         /\ cyc[c].emits = 1
         /\ Len(cyc[c].payload) >= 1
         /\ \A i \in 1..Len(cyc[c].payload) : Queried(cyc[c].payload[i])

\* the step in which fetch cycle c ends
EndStep(c) == CycleInFlight(c) /\ ~CycleInFlight(c)'

\* the step in which the read of the watched list by fetch cycle c settles
SymbolsStep(c) == cyc[c].pc = "symbols" /\ cyc'[c].pc # "symbols"

\* the step in which the store runs a statement of the batch of fetch cycle c
WriteStep(c) == call[c].op = "batch" /\ call'[c].idx = call[c].idx + 1

\* the settings with which the provider returns a sample for every symbol
ProviderSucceeds == IsUsingDummyProvider(dataProvider) \/ ~KeyIsFalsy(apiKey)

\* C7: a fetch cycle that finds the watched list empty ends at once,
\* without a call of the provider or of the store, without an event or an
\* alert, and leaves the stored rows and the last-update time as they are.
C7_EmptyListNoOp ==
    [][ \A c \in Cycles :
          (SymbolsStep(c) /\ watched = << >>) =>
              /\ EndStep(c)
              /\ ~cyc[c].fetched
              /\ cyc[c].emits = 0
              /\ cyc[c].alerts = {}
              /\ call[c] = IdleCall
              /\ UNCHANGED << db, lastWrite, lastUpdate, call >> ]_vars

\* the loop has been started with an empty watched list and its fetch
\* cycle is over: nothing is stored, no last-update time is written
C7_RanOnEmptyList ==
    /\ watched = << >>
    /\ backgroundTimerId # Null
    /\ NoCycleInFlight
    /\ db = {}
    /\ lastUpdate = Null

\* C8: a fetch cycle over n watched symbols for which the provider succeeds
\* writes n samples, one per watched symbol and in their order, each write
\* adding the row of its sample (one row more when the key had none) and
\* touching no row of another key, and emits one event, whose payload is
\* those n samples, all stored.
C8_OneSamplePerSymbol ==
    [][ \A c \in Cycles :
          /\ cyc[c].emits <= 1
          /\ WriteStep(c) =>
                LET data == call[c].data[call'[c].idx] IN
                /\ data = cyc[c].data[call'[c].idx]
                /\ RowOf(data, 1) \in db'
                /\ \A r \in db' : r = RowOf(data, 1) \/ r \in db
                /\ \A r \in db : SameKey(r, data.symbol, data.timestamp) \/ r \in db'
                /\ (\A r \in db : ~SameKey(r, data.symbol, data.timestamp))
                       => Cardinality(db') = Cardinality(db) + 1
          /\ (EmitStep(c) /\ ProviderSucceeds) =>
                /\ call[c].idx = Len(cyc[c].symbols)
                /\ Len(cyc'[c].payload) = Len(cyc[c].symbols)
                /\ \A i \in 1..Len(cyc[c].symbols) :
                      /\ cyc'[c].payload[i].symbol = cyc[c].symbols[i]
                      /\ cyc'[c].payload[i] = call[c].data[i]
                      /\ RowOf(cyc'[c].payload[i], 1) \in db ]_vars

\* the first fetch cycle over two watched symbols has emitted its two
\* samples, and they are the two rows of the store
C8_TwoSamples ==
    \E c \in Cycles :
        /\ Len(cyc[c].symbols) = 2
        /\ cyc[c].emits = 1
        /\ Len(cyc[c].payload) = 2
        /\ db = { RowOf(cyc[c].payload[i], 1) : i \in 1..2 }
        /\ Cardinality(db) = 2

\* the step in which fetch cycle c catches the error of its batch write
SaveFailedStep(c) ==
    cyc[c].pc = "save" /\ call[c].ret = "thrown" /\ EndStep(c)

\* the provider has returned to fetch cycle c without a sample for some
\* watched symbol
ProviderFailed(c) ==
    cyc[c].fetched /\ Len(cyc[c].data) < Len(cyc[c].symbols)

\* C9: a fetch cycle whose provider call or batch write fails leaves no new
\* row in the store, emits no event, sends no alert and leaves the
\* last-update time as it is.
C9_FailureLeavesNothing ==
    [][ \A c \in Cycles :
          /\ SaveFailedStep(c) =>
                /\ call[c].idx = 0
                /\ cyc[c].emits = 0
                /\ cyc[c].alerts = {}
                /\ ~cyc[c].updated
          /\ ProviderFailed(c) =>
                /\ cyc'[c].emits = 0
                /\ cyc'[c].alerts = {}
                /\ ~cyc'[c].updated
                /\ lastUpdate' = lastUpdate ]_vars

\* the batch write of a fetch cycle over two symbols has thrown at its
\* second statement, and the row of the first sample is in the store
C9_RowsLeftBehind ==
    \E c \in Cycles :
        /\ cyc[c].pc = "save"
        /\ call[c].ret = "thrown"
        /\ call[c].idx = 1
        /\ RowOf(cyc[c].data[1], 1) \in db

----------------------------------------------------------------------------
(* Properties of the timer period and of the alert condition *)

\* the period the interval setting asks for, in milliseconds: ten minutes
\* when the setting is unset
ConfiguredPeriod(setting) ==
    IF setting = Null THEN 10 * MINUTE ELSE setting * MINUTE

\* C6: the timer that a start of the loop arms has the period of the
\* interval setting (ten minutes when it is unset), also when the start is
\* the restart made by the listener of the interval setting.
C6_PeriodIsConfigured ==
    [][ lastOp' = "start" =>
          \E t \in timers' :
              /\ t.id = backgroundTimerId'
              /\ t.period = ConfiguredPeriod(updateInterval') ]_vars

\* polling is enabled, the interval was set to 30 minutes, its listener has
\* restarted the loop, and the timer armed has the period of one minute
C6_RestartKeepsPeriod ==
    /\ backgroundEnabled
    /\ updateInterval = 30
    /\ tasks = 0
    /\ lastOp = "start"
    /\ timers = { [ id |-> backgroundTimerId, period |-> DEFAULT_INTERVAL ] }

\* the condition of the specification on previous sample P and latest
\* sample L, ratios in hundredths
AlertExpected(P, L) ==
    \/ Abs(L.callPutRatio - P.callPutRatio) * 2 > P.callPutRatio
    \/ L.callPutRatio > BullishRatio /\ P.callPutRatio <= BullishRatio
    \/ L.callPutRatio < BearishRatio /\ P.callPutRatio >= BearishRatio
    \/ (L.callVolume + L.putVolume) - (P.callVolume + P.putVolume)
           > P.callVolume + P.putVolume

\* C10: for a previous sample P of nonzero ratio and nonzero total volume
\* and a latest sample L, checkAlertCondition fires if and only if the
\* ratio moved by more than 50%, or L.ratio > 3.0 and P.ratio <= 3.0, or
\* L.ratio < 0.5 and P.ratio >= 0.5, or the total volume more than doubled.
C10_AlertIff ==
    (shouldAlert # "none" /\ Len(alertInput) = 2) =>
        LET P == alertInput[1]
            L == alertInput[2] IN
        (P.callPutRatio # 0 /\ P.callVolume + P.putVolume # 0) =>
            (shouldAlert = "alert" <=> AlertExpected(P, L))

\* checkAlertCondition has returned false for a previous ratio of exactly
\* 3.0 and a latest ratio above 3.0
C10_QuietAtThreshold ==
    /\ shouldAlert = "quiet"
    /\ Len(alertInput) = 2
    /\ alertInput[1].callPutRatio = BullishRatio
    /\ alertInput[2].callPutRatio > BullishRatio

----------------------------------------------------------------------------
(* SpecAlertZero: checkAlertCondition on pairs of samples with zero ratios
   and zero volumes among them. *)

\* samples as a provider that reports no trade can store them:
\* << callVolume, putVolume, callPutRatio in hundredths >>
ZeroSamples ==
    { [ symbol |-> "AAPL", date |-> DateOf(StartTime),
        callVolume |-> v[1], putVolume |-> v[2],
        callOpenInterest |-> 20000, putOpenInterest |-> 15000,
        callPutRatio |-> v[3], timestamp |-> StartTime ] :
      v \in { << 0, 10000, 0 >>, << 0, 12000, 0 >>, << 0, 0, 0 >>,
              << 1000, 10000, 10 >>, << 2000, 10000, 20 >>,
              << 10000, 10000, 100 >>, << 12000, 10000, 120 >>,
              << 35000, 10000, 350 >> } }

InitAlertZero ==
    /\ InitWith(TRUE, { << >> }, { FALSE }, { "unset" }, { "null" })
    /\ alertInput \in
         { << [ p EXCEPT !.timestamp = StartTime - ShortStep,
                         !.date = DateOf(StartTime - ShortStep) ], l >> :
           p \in ZeroSamples, l \in ZeroSamples }
    /\ shouldAlert = "none"

NextAlertZero == CheckAlert

SpecAlertZero == InitAlertZero /\ [][NextAlertZero]_vars

\* the condition of the specification with its two guards: a relative
\* change counts only when its denominator is not zero
GuardedExpected(P, L) ==
    \/ /\ P.callPutRatio # 0
       /\ Abs(L.callPutRatio - P.callPutRatio) * 2 > Abs(P.callPutRatio)
    \/ L.callPutRatio > BullishRatio /\ P.callPutRatio <= BullishRatio
    \/ L.callPutRatio < BearishRatio /\ P.callPutRatio >= BearishRatio
    \/ /\ P.callVolume + P.putVolume # 0
       /\ (L.callVolume + L.putVolume) - (P.callVolume + P.putVolume)
              > P.callVolume + P.putVolume

\* C11: a division by zero never makes checkAlertCondition fire: when it
\* fires, the ratio swing with a nonzero previous ratio, a threshold
\* crossing, or the volume doubling with a nonzero previous total holds.
C11_ZeroGuarded ==
    (shouldAlert = "alert" /\ Len(alertInput) = 2) =>
        GuardedExpected(alertInput[1], alertInput[2])

\* checkAlertCondition has fired on a previous ratio of 0 and a latest
\* ratio of 0.10 with the total volume up by a tenth
C11_FiredOnZeroRatio ==
    /\ shouldAlert = "alert"
    /\ Len(alertInput) = 2
    /\ alertInput[1].callPutRatio = 0
    /\ alertInput[1].callVolume + alertInput[1].putVolume = 10000
    /\ alertInput[2].callPutRatio = 10
    /\ alertInput[2].callVolume + alertInput[2].putVolume = 11000

----------------------------------------------------------------------------
(* SpecAge: the polling loop, one fetch cycle at a time, one symbol watched,
   notifications on, with a clock that moves by less or by more than the
   hour checkVolumeAlerts looks back. *)

\* a clock advance past the window of checkVolumeAlerts
AgeStep == 2 * HOUR

TickAge == Advance(AgeStep)

InitAge ==
    /\ InitWith(TRUE, { << "AAPL" >> }, { TRUE }, { "unset" }, { "null" })
    /\ InitAlert

NextAge ==
    \/ NoCycleInFlight /\ StartBackgroundFetch
    \/ StopBackgroundFetch
    \/ NoCycleInFlight /\ TimerFire
    \/ TickShort
    \/ TickAge
    \/ \E c \in Cycles : CycleStep(c) \/ AlertStep(c)

SpecAge == InitAge /\ [][NextAge]_vars

\* the query of checkVolumeAlerts made for fetch cycle c has returned what
\* the store holds in its window
AlertQueryAnswered(c) ==
    /\ cyc[c].pc = "alerts"
    /\ call[c].op = "query" /\ call[c].pc = "done" /\ call[c].ret = "returned"
    /\ call[c].result = HistoryOf(db, call[c].symbol, call[c].startTime,
                                  call[c].endTime)

\* the alerts the specification asks for: the condition on the two stored
\* samples of symbol with the greatest timestamps, none with fewer than two
AlertsExpected(symbol) ==
    LET stored == HistoryOf(db, symbol, Null, Null)
        n == Len(stored) IN
    IF n >= 2 /\ CheckAlertCondition(<< stored[n - 1], stored[n] >>)
    THEN { [ symbol |-> symbol, timestamp |-> stored[n].timestamp ] }
    ELSE {}

\* C12: checkVolumeAlerts evaluates the alert condition on the two stored
\* samples of the symbol with the greatest timestamps, whatever their age,
\* and sends no alert for a symbol with fewer than two stored samples.
C12_TwoMostRecent ==
    \A c \in Cycles :
        AlertQueryAnswered(c) =>
            AlertsFor(call[c].symbol, call[c].result)
                = AlertsExpected(call[c].symbol)

\* two samples of the symbol are stored, two hours apart, on which the
\* alert condition holds, and checkVolumeAlerts has got only the later one
C12_OlderSampleLeftOut ==
    \E c \in Cycles :
        /\ AlertQueryAnswered(c)
        /\ Len(call[c].result) = 1
        /\ Len(HistoryOf(db, call[c].symbol, Null, Null)) = 2
        /\ AlertsExpected(call[c].symbol) # {}
        /\ AlertsFor(call[c].symbol, call[c].result) = {}

----------------------------------------------------------------------------
(* SpecQuery: the opened store, samples saved and ranges queried by clients
   that overlap, at two times. *)

\* the bounds a caller passes to getOptionsVolumeHistory
QueryBounds == { 0, StartTime, StartTime + ShortStep }

\* dbService.getOptionsVolumeHistory(symbol, startTime, endTime) is called
ClientQuery(p) ==
    /\ ~InFlight(p)
    /\ \E symbol \in Symbols, startTime \in QueryBounds, endTime \in QueryBounds :
         /\ startTime <= endTime
         /\ call' = [ call EXCEPT ![p] =
                        StartCall("query", << >>, symbol, startTime, endTime,
                                  initialized, now) ]
    /\ ClientFrame

InitQuery ==
    /\ InitWith(TRUE, { << >> }, { FALSE }, { "unset" }, { "null" })
    /\ InitAlert

NextQuery ==
    \/ TickShort
    \/ \E p \in Clients :
         \/ ClientSave(p)
         \/ ClientQuery(p)
         \/ DbSave(p) /\ StoreFrame
         \/ DbQuery(p) /\ StoreFrame

SpecQuery == InitQuery /\ [][NextQuery]_vars

\* the step in which the query of client p returns
QueryStep(p) ==
    call[p].op = "query" /\ call[p].pc = "body" /\ call'[p].pc = "done"

\* history is exactly the samples last written for symbol with
\* startTime <= timestamp <= endTime, in ascending order of timestamp
ExactRange(history, symbol, startTime, endTime) ==
    /\ \A i, j \in 1..Len(history) :
          i < j => history[i].timestamp < history[j].timestamp
    /\ { history[i] : i \in 1..Len(history) }
           = { lastWrite[k] : k \in { q \in DOMAIN lastWrite :
                                        /\ q[1] = symbol
                                        /\ startTime <= q[2]
                                        /\ q[2] <= endTime } }

\* C13: getOptionsVolumeHistory(symbol, start, end) with 0 <= start <= end
\* returns exactly the samples last written for the symbol with
\* start <= timestamp <= end, in ascending order of timestamp (or the empty
\* list, when the statement fails and the error is caught).
C13_ExactRange ==
    [][ \A p \in Clients :
          QueryStep(p) =>
              \/ call'[p].result = << >>
              \/ ExactRange(call'[p].result, call[p].symbol,
                            call[p].startTime, call[p].endTime) ]_vars

\* a query with both bounds 0 has returned a sample
C13_ZeroEndUnbounded ==
    \E p \in Clients :
        /\ call[p].op = "query" /\ call[p].pc = "done"
        /\ call[p].startTime = 0 /\ call[p].endTime = 0
        /\ Len(call[p].result) >= 1

----------------------------------------------------------------------------
(* SpecPurge: the opened store over eight days; clients save samples and
   moving averages and purge. *)

MaxPurgeTicks == 2

\* the clock steps of SpecPurge
PurgeSteps == { DAY, 7 * DAY }

TickPurge ==
    /\ ticks < MaxPurgeTicks
    /\ \E step \in PurgeSteps : now' = now + step
    /\ ticks' = ticks + 1
    /\ lastOp' = "step"
    /\ UNCHANGED << storeVars, settingVars, lastUpdate, loopVars, cyc,
                    tasks, alertVars, stockVars, appVars >>

\* a MovingAverageData record of a symbol at a time
AverageOf(symbol, time) ==
    [ symbol |-> symbol, ma10 |-> 100, ma50 |-> 100, ma100 |-> 100,
      ma200 |-> 100, lastUpdated |-> time ]

\* INSERT OR REPLACE INTO moving_averages: symbol is the primary key
ReplaceAverage(rows, data) ==
    { r \in rows : r.symbol # data.symbol } \cup { data }

\* saveMovingAverages: executeSql(INSERT OR REPLACE ...), errors rethrown
DbAverage(p) ==
    /\ call[p].pc = "body" /\ call[p].op = "average"
    /\ IF ~database
       THEN /\ call' = [ call EXCEPT ![p] = NotInitialized(@) ]
            /\ UNCHANGED averages
       ELSE \E ok \in BOOLEAN :
              IF ok
              THEN /\ averages' = ReplaceAverage(averages, call[p].data[1])
                   /\ call' = [ call EXCEPT ![p] = Returned(@) ]
              ELSE /\ call' = [ call EXCEPT ![p] = Thrown(@) ]
                   /\ UNCHANGED averages
    /\ UNCHANGED << db, database, initialized, lastWrite >>

\* what a step of the store on option_volume_history leaves alone
HistoryFrame ==
    /\ lastOp' = "step"
    /\ UNCHANGED << clockVars, tasks, alertVars, settingVars, lastUpdate,
                    loopVars, cyc, stockVars, appVars >>

\* dbService.saveMovingAverages(data) is called with the averages of AAPL
ClientAverage(p) ==
    /\ ~InFlight(p)
    /\ \E symbol \in { "AAPL" } :
         call' = [ call EXCEPT ![p] =
                     StartCall("average", << AverageOf(symbol, now) >>, "",
                               Null, Null, initialized, now) ]
    /\ ClientFrame

\* dbService.saveOptionsVolumeData(data) is called with a sample of AAPL
ClientSaveOne(p) ==
    /\ ~InFlight(p)
    /\ \E v \in Volumes :
         call' = [ call EXCEPT ![p] =
                     StartCall("save", << DummySample("AAPL", v, now) >>, "",
                               Null, Null, initialized, now) ]
    /\ ClientFrame

InitPurge ==
    /\ InitWith(TRUE, { << >> }, { FALSE }, { "unset" }, { "null" })
    /\ InitAlert

NextPurge ==
    \/ TickPurge
    \/ \E p \in Clients :
         \/ ClientSaveOne(p)
         \/ ClientAverage(p)
         \/ ClientPurge(p)
         \/ DbSave(p) /\ StoreFrame
         \/ DbAverage(p) /\ HistoryFrame
         \/ DbPurge(p) /\ StoreFrame

SpecPurge == InitPurge /\ [][NextPurge]_vars

\* the step in which client p calls purgeOldData and the cutoff is computed
PurgeCalled(p) ==
    call[p].pc # "body" /\ call'[p].op = "purge" /\ call'[p].pc = "body"

\* the step in which the DELETE of purgeOldData, called by client p, ends
PurgeStep(p) ==
    call[p].op = "purge" /\ call[p].pc = "body" /\ call'[p].pc = "done"

\* C14: purgeOldData removes exactly the rows with timestamp < now - 7 days,
\* now being the time at which it computes the cutoff, and leaves the newer
\* rows and the table moving_averages unchanged (a DELETE that fails is
\* caught and removes nothing).
C14_PurgeExact ==
    [][ \A p \in Clients :
          /\ PurgeCalled(p) => call'[p].cutoff = now - 7 * DAY
          /\ PurgeStep(p) =>
                /\ \/ db' = { r \in db : r.timestamp >= call[p].cutoff }
                   \/ db' = db
                /\ averages' = averages ]_vars

\* a sample was saved, a second one seven days later, and a day later
\* purgeOldData has removed the first (eight days old) and left the second
\* (one day old) and a moving average as old as the first
C14_EightDaysRemoved ==
    \E p, q \in Clients :
        /\ now = StartTime + 8 * DAY
        /\ call[q].op = "save" /\ call[q].ret = "returned"
        /\ call[q].data[1].timestamp = StartTime
        /\ call[p].op = "purge" /\ call[p].pc = "done"
        /\ call[p].cutoff = now - RETENTION
        /\ { r.timestamp : r \in db } = { now - DAY }
        /\ \E a \in averages : a.lastUpdated = StartTime

----------------------------------------------------------------------------
(* SpecUpsert: the opened, empty store; each client calls
   saveOptionsVolumeData once, at one of two times, and the two statements
   run in either order. *)

InitUpsert ==
    /\ InitWith(TRUE, { << >> }, { FALSE }, { "unset" }, { "null" })
    /\ InitAlert

NextUpsert ==
    \/ TickShort
    \/ \E p \in Clients :
         \/ call[p].pc = "idle" /\ ClientSave(p)
         \/ DbSave(p) /\ StoreFrame

SpecUpsert == InitUpsert /\ [][NextUpsert]_vars

\* clients p and q have each upserted a sample and no other client has
Upserted(p, q) ==
    /\ p # q
    /\ \A r \in { p, q } : call[r].op = "save" /\ call[r].ret = "returned"
    /\ \A r \in Clients \ { p, q } : call[r].ret # "returned"

\* the store contents after upsert(a) then upsert(b), from the empty store
UpsertBoth(a, b) == InsertOrReplace(InsertOrReplace({}, a), b)

\* C15 (as stated): for any two samples a and b, also with the same key and
\* different fields, the store contents after the two upserts are those of
\* upsert(a) then upsert(b), whichever statement ran first.
C15_Commutative ==
    \A p, q \in Clients :
        Upserted(p, q) => db = UpsertBoth(call[p].data[1], call[q].data[1])

\* C15 (amended): two upserts commute when the samples differ in key or are
\* equal; for two samples of one key the store holds one row for the key,
\* the sample written last.
C15_CommutesUnlessSameKey ==
    \A p, q \in Clients :
        Upserted(p, q) =>
            LET a == call[p].data[1]
                b == call[q].data[1]
                k == << a.symbol, a.timestamp >>
            IN  IF k # << b.symbol, b.timestamp >>
                THEN db = { RowOf(a, 1), RowOf(b, 1) }
                ELSE /\ db = { RowOf(lastWrite[k], 1) }
                     /\ lastWrite[k] \in { a, b }

\* two samples of one key and different volumes have been upserted
C15_SameKeyUpserted ==
    \E p, q \in Clients :
        /\ Upserted(p, q)
        /\ call[p].data[1] # call[q].data[1]
        /\ call[p].data[1].symbol = call[q].data[1].symbol
        /\ call[p].data[1].timestamp = call[q].data[1].timestamp

----------------------------------------------------------------------------
(* SpecLazy: the store before its first use; clients that overlap call the
   four public operations on option_volume_history. *)

NextLazy ==
    \E p \in Clients :
        \/ ClientSaveOne(p)
        \/ ClientBatch(p)
        \/ ClientQuery(p)
        \/ ClientPurge(p)
        \/ StoreStep(p) /\ StoreFrame

SpecLazy == InitStoreOnly /\ [][NextLazy]_vars

\* C16: a public operation called on a store that is not initialized opens
\* the database and creates the tables before its own statement runs, and
\* no public operation ends with 'Database not initialized', also when first
\* calls overlap.
C16_LazyInit ==
    \A p \in Clients :
        /\ call[p].ret # "notInitialized"
        /\ call[p].pc = "body" => database /\ initialized
        /\ (call[p].ret = "returned" /\ call[p].op # "none")
               => database /\ initialized

\* a first call has saved its sample while another first call, begun before
\* the store was initialized, is still initializing it
C16_OverlappingFirstCalls ==
    \E p, q \in Clients :
        /\ call[p].op = "save" /\ call[p].ret = "returned"
        /\ RowOf(call[p].data[1], 1) \in db
        /\ call[q].pc \in { "open", "schema", "initpurge" }

----------------------------------------------------------------------------
(* StockService, the two stock providers and the settings that select one *)

\* what AsyncStorage can hold under settings_tiingo_api_key: nothing, the
\* empty string, a blank string, a key
ApiKeys == { "null", "", " ", "key" }

\* apiKey.trim()
Trim(key) == IF key = " " THEN "" ELSE key

\* hasTiingoApiKey with apiKey !== "" in place of apiKey.trim() !== ""
HasUntrimmedKey(key) == key # "null" /\ key # ""

\* SettingsService.hasTiingoApiKey: apiKey !== null && apiKey.trim() !== ""
HasTiingoApiKey(key) == key # "null" /\ Trim(key) # ""

\* DUMMY_STOCKS (its first two entries; prices in cents, changePercent in
\* hundredths of a percent)
DUMMY_STOCKS ==
    [ s \in { "AAPL", "MSFT" } |->
        IF s = "AAPL"
        THEN [ symbol |-> "AAPL", name |-> "Apple Inc.", price |-> 20573,
               change |-> 215, changePercent |-> 105, volume |-> 58432156 ]
        ELSE [ symbol |-> "MSFT", name |-> "Microsoft Corporation",
               price |-> 41267, change |-> 328, changePercent |-> 80,
               volume |-> 22145678 ] ]

\* the queries and symbols a caller passes
Queries == { "aapl", "apple", "M", "XYZ" }
Tickers == { "AAPL", "aapl", "XYZ" }

\* String.prototype.toUpperCase on the strings of the model
ToUpperCase(s) ==
    CASE s = "aapl" -> "AAPL"
      [] s = "apple" -> "APPLE"
      [] s = "Apple Inc." -> "APPLE INC."
      [] s = "Microsoft Corporation" -> "MICROSOFT CORPORATION"
      [] OTHER -> s

\* String.prototype.includes on the upper-case strings of the model
Includes(s, q) ==
    q \in CASE s = "AAPL" -> { "AAPL" }
            [] s = "APPLE INC." -> { "APPLE" }
            [] s = "MSFT" -> { "MSFT", "M" }
            [] s = "MICROSOFT CORPORATION" -> { "M" }
            [] OTHER -> { s }

\* the values an operation of StockService resolves to
NullQuote == [ kind |-> "null" ]
QuoteOf(stock) == [ kind |-> "quote", quote |-> stock ]
ListOf(stocks) == [ kind |-> "list", list |-> stocks ]
ThrownError == [ kind |-> "thrown" ]

\* DummyStockProvider.searchStocks, getStockQuote, getBatchQuotes
DummyAnswer(op, arg) ==
    CASE op = "search" ->
           LET Matches(stock) ==
                   \/ Includes(ToUpperCase(stock.symbol), ToUpperCase(arg[1]))
                   \/ Includes(ToUpperCase(stock.name), ToUpperCase(arg[1]))
           IN  ListOf(SelectSeq(<< DUMMY_STOCKS["AAPL"], DUMMY_STOCKS["MSFT"] >>,
                                Matches))
      [] op = "quote" ->
           IF ToUpperCase(arg[1]) \in DOMAIN DUMMY_STOCKS
           THEN QuoteOf(DUMMY_STOCKS[ToUpperCase(arg[1])])
           ELSE NullQuote
      [] OTHER ->
           LET Known(s) == ToUpperCase(s) \in DOMAIN DUMMY_STOCKS
               found == SelectSeq(arg, Known)
           IN  ListOf([ i \in 1..Len(found) |-> DUMMY_STOCKS[ToUpperCase(found[i])] ])

\* what the network answers to a quote, a metadata and a search request, and
\* the items of a search response
QuoteResponses == { "error", "notArray", "empty", "nullItem", "sparse", "ok" }
MetaResponses == { "error", "none", "ok" }
SearchResponses == { "error", "notArray", "items" }
ItemKinds == { "null", "noTicker", "AAPL" }

\* a || b on numbers
Or(a, b) == IF a # 0 THEN a ELSE b

\* formatTiingoQuote; a field that is missing is 0 or ""
FormatTiingoQuote(data, details) ==
    LET price == Or(data.last, Or(data.prevClose, 0))
        prevClose == Or(data.prevClose, price)
        change == IF data.last # 0 THEN data.last - prevClose ELSE 0
    IN  [ symbol |-> data.ticker,
          name |-> IF details.name # "" THEN details.name ELSE data.ticker,
          price |-> price,
          change |-> change,
          changePercent |-> IF prevClose # 0
                            THEN (change * 10000) \div prevClose ELSE 0,
          volume |-> Or(data.volume, 0) ]

\* quoteResponse.data[0] of a response that has one
QuoteData(symbol, q) ==
    IF q = "ok"
    THEN [ ticker |-> symbol, last |-> 20000, prevClose |-> 19900,
           volume |-> 1000 ]
    ELSE [ ticker |-> "undefined", last |-> 0, prevClose |-> 0, volume |-> 0 ]

\* a catch block that rethrows
Uncaught(r, fallback) == r

\* try { r } catch (error) { return fallback }
Caught(r, fallback) == IF r.kind = "thrown" THEN fallback ELSE r

\* TiingoStockProvider.getStockQuote with the key createTiingoUrl reads and
\* the responses q and m of the two requests
TiingoGetStockQuote(symbol, key, q, m) ==
    Caught(IF \/ KeyIsFalsy(key)
              \/ q \in { "error", "notArray", "empty" }
              \/ m = "error"
              \/ q = "nullItem"
           THEN ThrownError
           ELSE QuoteOf(FormatTiingoQuote(QuoteData(symbol, q),
                          [ name |-> IF m = "ok" THEN "Apple Inc" ELSE "" ])),
           NullQuote)

\* TiingoStockProvider.getBatchQuotes: Promise.all of the quotes, nulls
\* filtered out
TiingoGetBatchQuotes(symbols, key, qs, ms) ==
    LET results == [ i \in 1..Len(symbols) |->
                       TiingoGetStockQuote(symbols[i], key, qs[i], ms[i]) ]
        IsThrown(r) == r.kind = "thrown"
        IsQuote(r) == r.kind = "quote"
        quotes == SelectSeq(results, IsQuote)
    IN  Caught(IF SelectSeq(results, IsThrown) # << >>
               THEN ThrownError
               ELSE ListOf([ i \in 1..Len(quotes) |-> quotes[i].quote ]),
               ListOf(<< >>))

\* the record of searchStocks for an item whose quote is not used
ZeroFilled(symbol, name) ==
    [ symbol |-> symbol, name |-> name, price |-> 0, change |-> 0,
      changePercent |-> 0, volume |-> 0 ]

\* the callback of searchStocks on one item of the response, with the
\* response d of its quote request
SearchItem(item, key, d) ==
    CASE item = "null" -> ThrownError
      [] item = "noTicker" -> QuoteOf(ZeroFilled("", "N/A"))
      [] OTHER ->
           Caught(IF KeyIsFalsy(key) \/ d \in { "error", "nullItem" }
                  THEN ThrownError
                  ELSE IF d \in { "ok", "sparse" }
                       THEN QuoteOf(FormatTiingoQuote(QuoteData(item, d),
                                      [ name |-> "Apple Inc" ]))
                       ELSE QuoteOf(ZeroFilled(item, "Apple Inc")),
                  QuoteOf(ZeroFilled(item, "Apple Inc")))

\* TiingoStockProvider.searchStocks with the response s of the search
\* request, its items and the responses ds of their quote requests
TiingoSearchStocks(key, s, items, ds) ==
    LET results == [ i \in 1..Len(items) |-> SearchItem(items[i], key, ds[i]) ]
        IsThrown(r) == r.kind = "thrown"
        HasSymbol(r) == r.quote.symbol \notin { "", "undefined" }
    IN  Caught(IF \/ KeyIsFalsy(key)
                  \/ s \in { "error", "notArray" }
                  \/ SelectSeq(results, IsThrown) # << >>
               THEN ThrownError
               ELSE LET kept == SelectSeq(results, HasSymbol)
                    IN  ListOf([ i \in 1..Len(kept) |-> kept[i].quote ]),
               ListOf(<< >>))

\* the operation of a provider under the responses env of the network; on
\* the provider null it is a TypeError that StockService catches; what the
\* promise of a provider settles to is returned as it is
AnswerOf(provider, op, arg, key, env) ==
    CASE provider = "dummy" -> DummyAnswer(op, arg)
      [] provider = "tiingo" /\ op = "search" ->
           TiingoSearchStocks(key, env.s, env.items, env.qs)
      [] provider = "tiingo" /\ op = "quote" ->
           TiingoGetStockQuote(arg[1], key, env.qs[1], env.ms[1])
      [] provider = "tiingo" ->
           TiingoGetBatchQuotes(arg, key, env.qs, env.ms)
      [] OTHER -> IF op = "quote" THEN NullQuote ELSE ListOf(<< >>)

\* the responses the network can give to the requests of an operation of
\* a provider, quote responses from Q and metadata responses from M; a
\* search response has up to MaxItems items
NoResponses == [ s |-> "none", items |-> << >>, qs |-> << >>, ms |-> << >> ]
Responses(provider, op, arg, Q, M) ==
    CASE provider # "tiingo" -> { NoResponses }
      [] op = "search" ->
           UNION { [ s : SearchResponses, items : [ 1..n -> ItemKinds ],
                     qs : [ 1..n -> Q ], ms : { << >> } ] :
                   n \in 0..MaxItems }
      [] OTHER ->
           [ s : { "none" }, items : { << >> },
             qs : [ 1..Len(arg) -> Q ], ms : [ 1..Len(arg) -> M ] ]

StockOps == { "search", "quote", "batch" }
SetterOps == { "setTiingoApiKey", "setDataProvider" }

Busy(p) == req[p].pc \notin { "idle", "done" }

\* what a step of StockService or SettingsService leaves alone
StockFrame ==
    /\ lastOp' = "step"
    /\ UNCHANGED << clockVars, storeVars, watched, backgroundEnabled,
                    notificationsEnabled, updateInterval, permissionGranted,
                    lastUpdate, loopVars, cyc, tasks, alertVars, appVars >>

\* StockService.searchStocks / getStockQuote / getBatchQuotes is called:
\* getProvider returns the cached provider, or awaits initialize
StockCall(p, ops) ==
    /\ ~Busy(p)
    /\ \E op \in ops :
         \E arg \in CASE op = "search" -> { << q >> : q \in Queries }
                      [] op = "quote" -> { << t >> : t \in Tickers }
                      [] OTHER -> UNION { [ 1..n -> Tickers ] : n \in 0..MaxBatch } :
           req' = [ req EXCEPT ![p] =
                      [ IdleReq EXCEPT !.op = op, !.arg = arg,
                          !.provider = currentProvider,
                          !.pc = IF currentProvider = "null" /\ ~isInitialized
                                 THEN "refresh" ELSE "answer" ] ]
    /\ UNCHANGED << currentProvider, isInitialized, dataProvider, apiKey >>
    /\ StockFrame

\* SettingsService.setTiingoApiKey / setDataProvider is called, with a key
\* of keys or a provider of providers
SetterCall(p, keys, providers) ==
    /\ ~Busy(p)
    /\ \E op \in SetterOps :
         \E value \in IF op = "setTiingoApiKey" THEN keys ELSE providers :
           req' = [ req EXCEPT ![p] =
                      [ IdleReq EXCEPT !.op = op, !.arg = << value >>,
                                       !.pc = "setItem" ] ]
    /\ UNCHANGED << currentProvider, isInitialized, dataProvider, apiKey >>
    /\ StockFrame

\* await AsyncStorage.setItem(...) of a setter; then resetProvider is called
SetItem(p) ==
    /\ req[p].pc = "setItem"
    /\ IF req[p].op = "setTiingoApiKey"
       THEN apiKey' = req[p].arg[1] /\ UNCHANGED dataProvider
       ELSE dataProvider' = req[p].arg[1] /\ UNCHANGED apiKey
    /\ req' = [ req EXCEPT ![p].pc = "refresh" ]
    /\ UNCHANGED << currentProvider, isInitialized >>
    /\ StockFrame

\* refreshProvider has assigned _currentProvider: a setter returns;
\* initialize sets _isInitialized and getProvider returns the provider
Refreshed(r, provider) ==
    IF r.op \in SetterOps
    THEN [ r EXCEPT !.pc = "done", !.ret = "returned" ]
    ELSE [ r EXCEPT !.pc = "answer", !.provider = provider ]

\* refreshProvider: await SettingsService.isUsingDummyProvider()
RefreshProvider(p) ==
    /\ req[p].pc = "refresh"
    /\ IF IsUsingDummyProvider(dataProvider)
       THEN /\ currentProvider' = "dummy"
            /\ req' = [ req EXCEPT ![p] = Refreshed(@, "dummy") ]
            /\ isInitialized' = (isInitialized \/ req[p].op \in StockOps)
       ELSE /\ req' = [ req EXCEPT ![p].pc = "hasApiKey" ]
            /\ UNCHANGED << currentProvider, isInitialized >>
    /\ UNCHANGED << dataProvider, apiKey >>
    /\ StockFrame

\* refreshProvider: await SettingsService.hasTiingoApiKey()
RefreshHasApiKey(p) ==
    /\ req[p].pc = "hasApiKey"
    /\ LET provider == IF HasTiingoApiKey(apiKey) THEN "tiingo" ELSE "dummy"
       IN  /\ currentProvider' = provider
           /\ req' = [ req EXCEPT ![p] = Refreshed(@, provider) ]
    /\ isInitialized' = (isInitialized \/ req[p].op \in StockOps)
    /\ UNCHANGED << dataProvider, apiKey >>
    /\ StockFrame

\* provider.searchStocks / getStockQuote / getBatchQuotes answers
StockAnswer(p, Q, M) ==
    /\ req[p].pc = "answer"
    /\ \E env \in Responses(req[p].provider, req[p].op, req[p].arg, Q, M) :
         LET r == AnswerOf(req[p].provider, req[p].op, req[p].arg, apiKey, env)
         IN  req' = [ req EXCEPT ![p].pc = "done", ![p].env = env,
                        ![p].result = r,
                        ![p].ret = IF r.kind = "thrown" THEN "thrown"
                                                        ELSE "returned" ]
    /\ UNCHANGED << currentProvider, isInitialized, dataProvider, apiKey >>
    /\ StockFrame

(* SpecStock: StockService under settings that do not change; clients that
   overlap search, quote and batch-quote. *)

InitStockOnly ==
    /\ InitWith(TRUE, { << >> }, { FALSE }, { "unset", "dummy", "tiingo" }, ApiKeys)
    /\ InitAlert

NextStock ==
    \E p \in Clients :
        \/ StockCall(p, StockOps)
        \/ RefreshProvider(p)
        \/ RefreshHasApiKey(p)
        \/ StockAnswer(p, { "error", "ok" }, { "ok" })

SpecStock == InitStockOnly /\ [][NextStock]_vars

\* no API key is stored: absent, empty, or only whitespace
NoKeyStored == apiKey \in { "null", "", " " }

\* client p has an answer of StockService
Answered(p) == req[p].op \in StockOps /\ req[p].pc = "done"

\* C17: with the provider setting tiingo and no API key stored, StockService
\* answers searchStocks, getStockQuote and getBatchQuotes exactly as with
\* the provider setting dummy: with the mock provider's answer.
C17_NoKeyAnswersAsMock ==
    \A p \in Clients :
        (Answered(p) /\ (dataProvider = "dummy"
                           \/ (dataProvider = "tiingo" /\ NoKeyStored)))
            => /\ req[p].ret = "returned"
               /\ req[p].result = DummyAnswer(req[p].op, req[p].arg)

\* getStockQuote("AAPL") is answered with the mock quote under the setting
\* tiingo and a blank key
C17_BlankKeyQuote ==
    \E p \in Clients :
        /\ Answered(p) /\ req[p].op = "quote" /\ req[p].arg = << "AAPL" >>
        /\ dataProvider = "tiingo" /\ apiKey = " "
        /\ req[p].result = QuoteOf(DUMMY_STOCKS["AAPL"])

----------------------------------------------------------------------------
(* Properties of the metrics provider without an API key, in SpecSeq *)

\* the step in which the provider returns to fetch cycle c
ProviderStep(c) == cyc[c].pc = "provider" /\ cyc'[c].pc = "save"

\* C18: with the provider setting tiingo and no API key stored,
\* getOptionsVolume(symbol) returns a (mock) sample for every watched symbol,
\* and the fetch cycle stores one sample per watched symbol.
C18_NoKeyStillStores ==
    [][ \A c \in Cycles :
          (dataProvider = "tiingo" /\ apiKey \in { "null", "", " " }) =>
              /\ ProviderStep(c) =>
                    /\ Len(cyc'[c].data) = Len(cyc[c].symbols)
                    /\ \A i \in 1..Len(cyc[c].symbols) :
                          cyc'[c].data[i].symbol = cyc[c].symbols[i]
              /\ EmitStep(c) => call[c].idx = Len(cyc[c].symbols) ]_vars

\* under the setting tiingo without a key a fetch cycle has emitted its
\* event for a watched symbol and the store is empty
C18_NothingStored ==
    \E c \in Cycles :
        /\ dataProvider = "tiingo" /\ apiKey = "null"
        /\ cyc[c].symbols # << >>
        /\ cyc[c].emits = 1
        /\ cyc[c].payload = << >>
        /\ db = {}

----------------------------------------------------------------------------
(* SpecSettings: the settings are changed through SettingsService while
   StockService is in use; changes and calls overlap. *)

InitSettings ==
    /\ InitWith(TRUE, { << >> }, { FALSE }, { "unset", "tiingo" }, { "null", "key" })
    /\ InitAlert

NextSettings ==
    \E p \in Clients :
        \/ SetterCall(p, ApiKeys, { "tiingo", "dummy" })
        \/ SetItem(p)
        \/ StockCall(p, { "quote" })
        \/ RefreshProvider(p)
        \/ RefreshHasApiKey(p)
        \/ StockAnswer(p, { "ok" }, { "ok" })

SpecSettings == InitSettings /\ [][NextSettings]_vars

\* the provider the stored settings determine
Determined ==
    IF dataProvider = "tiingo" /\ ~NoKeyStored THEN "tiingo" ELSE "dummy"

\* a settings change or a resolution of the provider is under way
Resolving(p) == req[p].pc \in { "setItem", "refresh", "hasApiKey" }

\* C19: once a setter of SettingsService has returned and no change or
\* resolution is under way, the provider cached by StockService is the one
\* the stored settings determine; a call of StockService made when a
\* provider is cached uses it without reading the settings.
C19_CacheFollowsSettings ==
    [][ /\ ( /\ \E p \in Clients : req'[p].op \in SetterOps /\ req'[p].pc = "done"
             /\ \A p \in Clients : ~Resolving(p)' )
            => currentProvider' = Determined'
        /\ \A p \in Clients :
             (req[p].pc \in { "idle", "done" } /\ req'[p].op \in StockOps
                 /\ req'[p].pc # "done" /\ currentProvider # "null")
               => req'[p].pc = "answer" /\ req'[p].provider = currentProvider
      ]_vars

\* two changes of the provider setting have returned, the stored setting is
\* dummy and the cached provider is the remote one
C19_StaleProvider ==
    /\ \A p \in Clients : req[p].op = "setDataProvider" /\ req[p].pc = "done"
    /\ dataProvider = "dummy"
    /\ currentProvider = "tiingo"

----------------------------------------------------------------------------
(* SpecTiingo: the remote provider is selected; one client at a time calls
   StockService and takes the answer, the network answers in every way,
   and the settings can change under a call. *)

\* the caller takes the value of its call
Forget(p) ==
    /\ req[p].pc = "done"
    /\ req' = [ req EXCEPT ![p] = IdleReq ]
    /\ UNCHANGED << currentProvider, isInitialized, dataProvider, apiKey >>
    /\ StockFrame

InitTiingo ==
    /\ InitWith(TRUE, { << >> }, { FALSE }, { "tiingo" }, { "key" })
    /\ InitAlert

NextTiingo ==
    \E p \in Clients :
        \/ (\A q \in Clients \ { p } : req[q].op \notin StockOps)
               /\ StockCall(p, StockOps)
        \/ SetterCall(p, { "", "key" }, { })
        \/ SetItem(p)
        \/ RefreshProvider(p)
        \/ RefreshHasApiKey(p)
        \/ StockAnswer(p, QuoteResponses, MetaResponses)
        \/ Forget(p)

SpecTiingo == InitTiingo /\ [][NextTiingo]_vars

\* the step in which the remote provider answers the call of client p
TiingoStep(p) ==
    req[p].pc = "answer" /\ req[p].provider = "tiingo" /\ req'[p].pc = "done"

\* a quote of the remote provider fails: no URL can be made, a request
\* fails, or the quote response is not a non-empty array of objects
QuoteFails(key, q, m) ==
    \/ key \in { "null", "" }
    \/ q \in { "error", "notArray", "empty", "nullItem" }
    \/ m = "error"

\* the i-th index, in ascending order, of the set S of indices
Nth(S, i) == CHOOSE n \in S : Cardinality({ m \in S : m <= n }) = i

----------------------------------------------------------------------------
(* OptionsVolumeService: the watched list.  addWatchedSymbol and
   removeWatchedSymbol read the list, write the list they computed from
   what they read and, for the event, read the latest samples; each await
   is a step, and calls of two clients may overlap. *)

\* symbols.includes(symbol)
Watches(symbols, symbol) == \E i \in 1..Len(symbols) : symbols[i] = symbol

\* symbols.push(symbol)
Push(symbols, symbol) == Append(symbols, symbol)

\* a filter that keeps every symbol
KeepAll(symbols, symbol) == symbols

\* symbols.filter(s => s !== symbol)
Filter(symbols, symbol) == SelectSeq(symbols, LAMBDA s : s # symbol)

\* addWatchedSymbol without its test of includes: every add is to be written
AddUnchecked(symbols, symbol) == FALSE

\* addWatchedSymbol: if (symbols.includes(symbol)) return
AlreadyWatched(symbols, symbol) == Watches(symbols, symbol)

\* getLatestOptionsData: of each watched symbol the last sample of the last
\* DEFAULT_INTERVAL, where there is one
LatestOptionsData(symbols, rows, time) ==
    LET Last(symbol) == HistoryOf(rows, symbol, time - DEFAULT_INTERVAL, time)
        Kept == SelectSeq(symbols, LAMBDA s : Len(Last(s)) > 0)
    IN  [ i \in 1..Len(Kept) |-> Last(Kept[i])[Len(Last(Kept[i]))] ]

\* what a step of a call on the watched list leaves alone
WlFrame ==
    /\ lastOp' = "step"
    /\ UNCHANGED << clockVars, db, database, initialized, lastWrite, averages,
                    stockVars, backgroundEnabled, notificationsEnabled,
                    dataProvider, apiKey, updateInterval, permissionGranted,
                    lastUpdate, loopVars, cyc, tasks, alertVars,
                    seen, sset, volumeEnabled, boot, ovs, screen >>

WlBusy(p) == wl[p].pc \notin {"idle", "done"}

\* the call returns (also from its catch, which only logs)
WlDone(w) == [ w EXCEPT !.pc = "done", !.at = now ]

\* addWatchedSymbol(symbol) or removeWatchedSymbol(symbol) is called: up to
\* the await of getWatchedSymbols()
WlCall(p, ops, syms) ==
    /\ ~WlBusy(p) /\ ~InFlight(p)
    /\ \E op \in ops, symbol \in syms :
         wl' = [ wl EXCEPT ![p] = [ IdleWl EXCEPT !.op = op, !.pc = "read",
                                      !.symbol = symbol, !.before = watched ] ]
    /\ UNCHANGED << watched, call >>
    /\ WlFrame

\* getWatchedSymbols() has resolved (with [] on a storage error); add
\* returns if the symbol is there, else pushes it; remove filters it out;
\* both go on to AsyncStorage.setItem
WlRead(p) ==
    /\ wl[p].pc = "read"
    /\ \E ok \in BOOLEAN :
         LET symbols == IF ok THEN watched ELSE << >>
             w == [ wl[p] EXCEPT !.readOk = ok ]
         IN  wl' = [ wl EXCEPT ![p] =
                   IF w.op = "add"
                   THEN IF AlreadyWatched(symbols, w.symbol)
                        THEN WlDone([ w EXCEPT !.symbols = symbols ])
                        ELSE [ w EXCEPT !.pc = "write",
                                        !.symbols = Push(symbols, w.symbol) ]
                   ELSE [ w EXCEPT !.pc = "write",
                                   !.symbols = Filter(symbols, w.symbol) ] ]
    /\ UNCHANGED << watched, call >>
    /\ WlFrame

\* AsyncStorage.setItem has settled: the list is written, or the error is
\* caught; add goes on to the provider, remove to getLatestOptionsData()
WlWrite(p) ==
    /\ wl[p].pc = "write"
    /\ \E ok \in BOOLEAN :
         IF ok
         THEN /\ watched' = wl[p].symbols
              /\ wl' = [ wl EXCEPT ![p] =
                           [ @ EXCEPT !.wrote = TRUE,
                                      !.pc = IF wl[p].op = "add" THEN "provider"
                                             ELSE "latest" ] ]
         ELSE /\ UNCHANGED watched
              /\ wl' = [ wl EXCEPT ![p] = WlDone(@) ]
    /\ UNCHANGED call
    /\ WlFrame

\* provider.getOptionsVolume(symbol) has resolved with volumes out of
\* draws: if (data) the sample is
\* handed to dbService.saveOptionsVolumeData, else the call returns
WlProvider(p, draws) ==
    /\ wl[p].pc = "provider"
    /\ \E v \in draws :
         LET data == GetOptionsVolume(wl[p].symbol, v, dataProvider, apiKey, now)
         IN  IF data # NoData
             THEN /\ wl' = [ wl EXCEPT ![p] = [ @ EXCEPT !.pc = "save",
                                                         !.data = data ] ]
                  /\ call' = [ call EXCEPT ![p] =
                                 StartCall("save", << data >>, "", Null, Null,
                                           initialized, now) ]
             ELSE /\ wl' = [ wl EXCEPT ![p] = WlDone(@) ]
                  /\ UNCHANGED call
    /\ UNCHANGED watched
    /\ WlFrame

\* saveOptionsVolumeData has settled: an error is caught, else
\* getLatestOptionsData() is called
WlSaved(p) ==
    /\ wl[p].pc = "save"
    /\ call[p].pc = "done"
    /\ wl' = [ wl EXCEPT ![p] =
                 IF call[p].ret \in {"thrown", "notInitialized"}
                 THEN WlDone(@) ELSE [ @ EXCEPT !.pc = "latest" ] ]
    /\ UNCHANGED << watched, call >>
    /\ WlFrame

\* getLatestOptionsData() has resolved ([] on an error) and
\* optionsEvents.emit('options-data-updated', allData) has run
WlEmit(p) ==
    /\ wl[p].pc = "latest"
    /\ \E ok \in BOOLEAN :
         wl' = [ wl EXCEPT ![p] =
                   WlDone([ @ EXCEPT !.emitted = TRUE,
                                     !.payload = IF ok /\ database
                                                 THEN LatestOptionsData(watched, db, now)
                                                 ELSE << >> ]) ]
    /\ UNCHANGED << watched, call >>
    /\ WlFrame

\* a step of the call of client p on the watched list, with the steps of
\* the store made for it
WlStep(p, draws) ==
    \/ WlRead(p)
    \/ WlWrite(p)
    \/ WlProvider(p, draws)
    \/ WlSaved(p)
    \/ WlEmit(p)
    \/ wl[p].pc = "save" /\ DbSave(p) /\ StoreFrame

\* a step of a removeWatchedSymbol call of client p
RemoveStep(p) ==
    \/ WlRead(p)
    \/ WlWrite(p)
    \/ WlEmit(p)

(* SpecWatchSeq: calls of addWatchedSymbol and removeWatchedSymbol one
   after the other, over a list of up to two symbols. *)

WatchLists == { << >>, << "MSFT" >>, << "AAPL", "MSFT" >> }

InitWatch ==
    /\ InitWith(TRUE, WatchLists, { FALSE }, { "unset", "tiingo" }, { "null" })
    /\ InitAlert

\* the volumes the provider draws here
OneDraw == { v \in Volumes : v.callVolume = 10000 }

NextWatchSeq ==
    \E p \in Clients :
        \/ (\A q \in Clients : ~WlBusy(q)) /\ WlCall(p, {"add", "remove"}, Symbols)
        \/ WlStep(p, OneDraw)

SpecWatchSeq == InitWatch /\ [][NextWatchSeq]_vars

\* how often symbol is in the list
Occurrences(symbols, symbol) ==
    Cardinality({ i \in 1..Len(symbols) : symbols[i] = symbol })

\* the step in which the add of client p returns because the symbol is there
AddReturnsEarly(p) ==
    wl[p].op = "add" /\ wl[p].pc = "read" /\ wl'[p].pc = "done"

\* the step in which the list of client p is written
ListWritten(p) == wl[p].pc = "write" /\ wl'[p].wrote

C22_MutationEmits ==
    \A p \in Clients :
        ( /\ wl[p].pc = "done" /\ wl[p].wrote
          /\ wl[p].data = NoData \/ call[p].ret = "returned" )
        => wl[p].emitted

\* C22 (counterexample): Tiingo is selected and no key is stored; AAPL was
\* added to the persisted list, the provider returned null, and the call
\* has returned without the event
C22_AddedWithoutEvent ==
    \E p \in Clients :
        /\ wl[p].op = "add" /\ wl[p].pc = "done" /\ wl[p].wrote
        /\ Watches(watched, wl[p].symbol) /\ ~Watches(wl[p].before, wl[p].symbol)
        /\ dataProvider = "tiingo" /\ wl[p].data = NoData
        /\ ~wl[p].emitted

\* C22 (witness): a remove that wrote the list and an add whose provider
\* returned a sample have emitted the event
C22_EmittedAfterMutation ==
    /\ wl[3].op = "remove" /\ wl[3].pc = "done" /\ wl[3].wrote /\ wl[3].emitted
    /\ wl[4].op = "add" /\ wl[4].pc = "done" /\ wl[4].wrote /\ wl[4].emitted
    /\ wl[4].data # NoData

(* SpecWatch: one call of addWatchedSymbol or removeWatchedSymbol by each
   of two clients, the calls overlapping at their awaits. *)

NextWatch ==
    \E p \in Clients :
        \/ wl[p].pc = "idle" /\ WlCall(p, {"add", "remove"}, Symbols)
        \/ WlStep(p, OneDraw)

SpecWatch == InitWatch /\ [][NextWatch]_vars

\* the call of client p has returned after reading and writing the list
Mutated(p) == wl[p].pc = "done" /\ wl[p].readOk /\ wl[p].wrote

\* the list shows what the call of client p was to do
Reflects(symbols, p) ==
    IF wl[p].op = "add" THEN Watches(symbols, wl[p].symbol)
    ELSE ~Watches(symbols, wl[p].symbol)

\* C28: when two calls on distinct symbols (add and add, or add and
\* remove) have both returned after reading and writing the list, the
\* persisted list reflects both, however their steps interleaved
C28_NoLostUpdate ==
    \A p, q \in Clients :
        ( /\ p # q /\ Mutated(p) /\ Mutated(q)
          /\ wl[p].symbol # wl[q].symbol
          /\ "add" \in { wl[p].op, wl[q].op } )
        => Reflects(watched, p) /\ Reflects(watched, q)

\* C28 (counterexample): on the empty list one client added AAPL and the
\* other MSFT, both read the list before either wrote it, and the list
\* holds MSFT alone
C28_LostAdd ==
    /\ wl[3].op = "add" /\ wl[3].symbol = "AAPL" /\ Mutated(3)
    /\ wl[4].op = "add" /\ wl[4].symbol = "MSFT" /\ Mutated(4)
    /\ wl[3].before = << >> /\ wl[4].before = << >>
    /\ watched = << "MSFT" >>

(* SpecRemove: AAPL is watched; one client calls removeWatchedSymbol("AAPL")
   once while the polling loop runs its fetch cycles, one at a time, and
   the clock may advance. *)

InitRemove ==
    /\ InitWith(TRUE, { << "AAPL" >>, << "AAPL", "MSFT" >> }, { FALSE },
                { "unset" }, { "null" })
    /\ InitAlert

NextRemove ==
    \/ NoCycleInFlight /\ StartBackgroundFetch
    \/ NoCycleInFlight /\ TimerFire
    \/ TickShort
    \/ \E c \in Cycles : CycleStep(c)
    \/ wl[3].pc = "idle" /\ WlCall(3, {"remove"}, {"AAPL"})
    \/ RemoveStep(3)

SpecRemove == InitRemove /\ [][NextRemove]_vars

\* the rows of symbol
RowsOf(rows, symbol) == { r \in rows : r.symbol = symbol }

\* a removeWatchedSymbol(symbol) has written the list
RemovalWritten(symbol) ==
    \E p \in Clients :
        wl[p].op = "remove" /\ wl[p].symbol = symbol /\ wl[p].wrote

\* C30: no step of a removeWatchedSymbol call touches the stored samples
\* (or the moving averages); a fetch cycle whose read of the watched list
\* resolves after the removal of S has written the list does not have S
\* in its symbols, and a step of a cycle changes the rows of S only if S
\* is in the symbols that cycle read, so that only a cycle that read the
\* list before the removal stores a sample for S afterwards
C30_RemoveOnlyTheList ==
    [][ /\ (\E p \in Clients : wl'[p] # wl[p]) =>
              db' = db /\ averages' = averages /\ lastWrite' = lastWrite
        /\ \A c \in Cycles, S \in Symbols :
              /\ ( /\ cyc[c].pc = "symbols" /\ cyc'[c].pc = "provider"
                   /\ RemovalWritten(S) )
                 => ~Watches(cyc'[c].symbols, S)
              /\ ( /\ call'[c] # call[c]
                   /\ RowsOf(db', S) # RowsOf(db, S) )
                 => Watches(cyc[c].symbols, S)
        /\ \A S \in Symbols :
              RowsOf(db', S) # RowsOf(db, S) => \E c \in Cycles : call'[c] # call[c]
      ]_vars

\* C30 (witness): the removal of AAPL returned at the start time with the
\* list written; a cycle that had read the list before stored its sample
\* of AAPL, stamped half an hour later, which is in the table
C30_StoredAfterRemoval ==
    /\ wl[3].pc = "done" /\ wl[3].wrote /\ wl[3].at = StartTime
    /\ ~Watches(watched, "AAPL")
    /\ \E r \in db : r.symbol = "AAPL" /\ r.timestamp = StartTime + ShortStep

----------------------------------------------------------------------------
(* SpecNotify: the polling loop, one fetch cycle at a time, with the
   notification setting switched on and off and the permission granted or
   refused; the cycle's read of the setting does not fail. *)

\* OptionsVolumeService.setNotificationsEnabled(enabled): the write has
\* settled (an error is caught) and, when enabling, requestPermissions()
\* has resolved with the answer of the platform
SetNotificationsEnabled(enabled) ==
    /\ \E ok, granted \in BOOLEAN :
         IF ok
         THEN /\ notificationsEnabled' = enabled
              /\ permissionGranted' = IF enabled THEN granted ELSE permissionGranted
         ELSE UNCHANGED << notificationsEnabled, permissionGranted >>
    /\ lastOp' = "step"
    /\ UNCHANGED << clockVars, storeVars, stockVars, appVars, watched,
                    backgroundEnabled, dataProvider, apiKey, updateInterval,
                    lastUpdate, loopVars, cyc, tasks, alertVars >>

InitNotify ==
    /\ InitWith(TRUE, { << "AAPL" >>, << "AAPL", "MSFT" >> }, BOOLEAN,
                { "unset" }, { "null" })
    /\ InitAlert

NextNotify ==
    \/ NoCycleInFlight /\ StartBackgroundFetch
    \/ NoCycleInFlight /\ TimerFire
    \/ TickShort
    \/ \E enabled \in BOOLEAN : SetNotificationsEnabled(enabled)
    \/ \E c \in Cycles :
         \/ CycSymbols(c)
         \/ CycProvider(c)
         \/ DbBatchRow(c) /\ StoreFrame
         \/ CycSaved(c)
         \/ CycLastUpdate(c)
         \/ CycNotificationsRead(c, { TRUE })
         \/ AlertStep(c)

SpecNotify == InitNotify /\ [][NextNotify]_vars

\* the step in which cycle c has the answer of areNotificationsEnabled()
SettingRead(c) == cyc[c].pc = "notifications" /\ cyc'[c] # cyc[c]

\* the batch of cycle c has been written: its call returned and each of its
\* samples is in the table
SamplesStored(c) ==
    /\ call[c].op = "batch" /\ call[c].ret = "returned"
    /\ \A i \in 1..Len(cyc[c].data) : \E r \in db : SampleOf(r) = cyc[c].data[i]

\* a step of cycle c in which checkVolumeAlerts of its k-th symbol settles:
\* the alert is the one of that symbol, and the next symbol follows, up to
\* the last
EvaluatesInTurn(c) ==
    LET k == cyc[c].k IN
    /\ k \in 1..Len(cyc[c].symbols)
    /\ call[c].op = "query" /\ call[c].symbol = cyc[c].symbols[k]
    /\ IF k < Len(cyc[c].symbols)
       THEN /\ cyc'[c].pc = "alerts" /\ cyc'[c].k = k + 1
            /\ cyc'[c].alerts \in
                 { cyc[c].alerts,
                   cyc[c].alerts \cup AlertsFor(cyc[c].symbols[k], call[c].result) }
       ELSE cyc'[c].pc = "idle"

\* a fetch cycle sends or evaluates alerts only from where the setting let it
AlertsOnlyWhereChecked(c) ==
    /\ (cyc'[c].alerts # cyc[c].alerts /\ cyc'[c].alerts # {}) => cyc[c].pc = "alerts"
    /\ (cyc[c].pc # "alerts" /\ cyc'[c].pc = "alerts") => SettingRead(c)
    /\ (cyc[c].pc = "alerts" /\ cyc'[c] # cyc[c]) => EvaluatesInTurn(c)

----------------------------------------------------------------------------
(* SpecTimer: every way the polling timer is started and stopped, in any
   order: startBackgroundFetch and stopBackgroundFetch called directly,
   setBackgroundEnabled, and the change of the interval setting, whose
   listener stops and restarts the loop.  Nothing is watched, so that
   a fetch cycle ends at its first step. *)

NextTimer ==
    \/ StartBackgroundFetch
    \/ StopBackgroundFetch
    \/ \E enabled \in BOOLEAN : SetBackgroundEnabled(enabled)
    \/ \E minutes \in Intervals : SetOptionsUpdateInterval(minutes)
    \/ IntervalListener
    \/ TimerFire
    \/ \E c \in Cycles : CycSymbols(c)

SpecTimer == InitLoopOnly /\ [][NextTimer]_vars

\* the loop is RUNNING: the service holds the id of a timer
Running == backgroundTimerId # Null

\* at most one timer is armed, the one whose id the service holds
OneTimer(armed, id) ==
    /\ Cardinality(armed) <= 1
    /\ \A t \in armed : t.id = id
    /\ id # Null => armed # {}

\* C26: before and after every step at most one polling timer is armed,
\* and it is the one whose id the service holds; a start, also one made
\* while RUNNING, leaves exactly one timer armed; a stop while STOPPED
\* changes neither the timers nor the id
C26_AtMostOneTimer ==
    [][ /\ OneTimer(timers, backgroundTimerId)
        /\ OneTimer(timers', backgroundTimerId')
        /\ lastOp' = "start" => Cardinality(timers') = 1 /\ backgroundTimerId' # Null
        /\ (lastOp' = "stop" /\ ~Running) =>
              UNCHANGED << timers, backgroundTimerId >>
      ]_vars

\* C26 (witness): two starts with no stop between them, the fetch cycle of
\* each still at its first step: one timer is armed
C26_RestartedWhileRunning ==
    /\ lastOp = "start" /\ Running /\ Cardinality(timers) = 1
    /\ \A c \in Cycles :
          cyc[c].pc = "symbols" /\ cyc[c].origin = "start" /\ ~cyc[c].stopSeen

----------------------------------------------------------------------------
(* SpecRace: setBackgroundEnabled and changes of the interval setting,
   with the listener of the interval setting taken in its two steps: its
   read of the background flag resolves, and later it goes on with what
   it read. *)

\* the bound on the listeners suspended with the flag they read
MaxSeen == 1

\* what a step of the listener leaves alone
ListenerFrame ==
    /\ UNCHANGED << backgroundEnabled, updateInterval >>
    /\ UNCHANGED << wl, sset, volumeEnabled, boot, ovs, screen >>
    /\ UNCHANGED << clockVars, alertVars, db, database, initialized, lastWrite,
                    averages, stockVars,
                    watched, notificationsEnabled, dataProvider, apiKey,
                    permissionGranted, lastUpdate >>

\* the listener that goes on at once with the flag as it is in storage
ResumeWithStored(flag) == backgroundEnabled

\* the listener goes on with the value its read resolved with
ResumeWithRead(flag) == flag

\* isBackgroundEnabled() of a listener: AsyncStorage.getItem reads the flag
\* (a storage error gives false)
ListenerRead ==
    /\ tasks > 0 /\ Len(seen) < MaxSeen
    /\ tasks' = tasks - 1
    /\ \E ok \in BOOLEAN : seen' = Append(seen, ok /\ backgroundEnabled)
    /\ lastOp' = "step"
    /\ UNCHANGED << loopVars, cyc, call >>
    /\ ListenerFrame

\* the listener goes on after its await: if (isEnabled) { stop; start }
ListenerResume ==
    /\ seen # << >>
    /\ seen' = Tail(seen)
    /\ IF ResumeWithRead(Head(seen))
       THEN RestartLoop /\ lastOp' = "start"
       ELSE UNCHANGED << loopVars, cyc, call >> /\ lastOp' = "step"
    /\ UNCHANGED tasks
    /\ ListenerFrame

NextRace ==
    \/ \E enabled \in BOOLEAN : SetBackgroundEnabled(enabled)
    \/ \E minutes \in Intervals : SetOptionsUpdateInterval(minutes)
    \/ ListenerRead
    \/ ListenerResume
    \/ TimerFire
    \/ \E c \in Cycles : CycSymbols(c)

SpecRace == InitLoopOnly /\ [][NextRace]_vars

\* no handler is suspended between its read of the flag and its end
Quiescent == tasks = 0 /\ seen = << >>

\* C27: in every quiescent state a polling timer is armed only if the
\* persisted background-enabled flag is true
C27_ArmedOnlyIfEnabled ==
    Quiescent => (timers # {} => backgroundEnabled)

\* C27 (counterexample): no handler is suspended, the persisted flag is
\* false, the interval was changed, and a polling timer is armed
C27_ArmedWhileDisabled ==
    /\ Quiescent
    /\ ~backgroundEnabled /\ updateInterval # Null
    /\ timers # {} /\ backgroundTimerId # Null
    /\ lastOp = "start"

----------------------------------------------------------------------------
(* SpecBoot: OptionsVolumeService.initialize() called by two clients, the
   calls overlapping at its awaits or following one another, over a store
   that is not yet opened; nothing is watched. *)

\* what a step of initialize() leaves alone
BootFrame ==
    /\ lastOp' = "step"
    /\ UNCHANGED << clockVars, averages, stockVars, watched, backgroundEnabled,
                    notificationsEnabled, dataProvider, apiKey, updateInterval,
                    lastUpdate, tasks, alertVars,
                    wl, seen, sset, volumeEnabled, screen >>

\* if (!_isInitialized) { ... }
AlreadyInitialized(flag) == flag

\* initialize() is called: if the service is initialized it returns, else
\* getProvider() runs and dbService.initialize() is awaited
BootCall(p) ==
    /\ boot[p].pc = "idle" /\ ~InFlight(p)
    /\ IF AlreadyInitialized(ovs.isInitialized)
       THEN /\ boot' = [ boot EXCEPT ![p] = [ pc |-> "done", ret |-> "returned" ] ]
            /\ UNCHANGED call
       ELSE /\ boot' = [ boot EXCEPT ![p].pc = "db" ]
            /\ call' = [ call EXCEPT ![p] =
                           StartCall("init", << >>, "", Null, Null, initialized, now) ]
    /\ UNCHANGED << db, database, initialized, lastWrite, permissionGranted,
                    loopVars, cyc, ovs >>
    /\ BootFrame

\* dbService.initialize() has settled: its error leaves initialize()
\* rejected; else NotificationService.requestPermissions() is awaited
BootDb(p) ==
    /\ boot[p].pc = "db" /\ call[p].pc = "done"
    /\ boot' = [ boot EXCEPT ![p] =
                   IF call[p].ret = "returned" THEN [ @ EXCEPT !.pc = "permissions" ]
                   ELSE [ pc |-> "done", ret |-> "thrown" ] ]
    /\ UNCHANGED << db, database, initialized, lastWrite, call, permissionGranted,
                    loopVars, cyc, ovs >>
    /\ BootFrame

\* requestPermissions() has resolved with the answer of the platform, and
\* isBackgroundEnabled() is awaited
BootPermissions(p) ==
    /\ boot[p].pc = "permissions"
    /\ \E granted \in BOOLEAN : permissionGranted' = granted
    /\ boot' = [ boot EXCEPT ![p].pc = "enabled" ]
    /\ UNCHANGED << db, database, initialized, lastWrite, call, loopVars, cyc, ovs >>
    /\ BootFrame

\* isBackgroundEnabled() has resolved (false on a storage error): the loop
\* is started if the flag is set, the listeners of the settings are
\* registered, the daily purge is scheduled, and _isInitialized = true
BootSetup(p) ==
    /\ boot[p].pc = "enabled"
    /\ \E ok \in BOOLEAN :
         LET isEnabled == ok /\ backgroundEnabled IN
         /\ IF isEnabled THEN StartLoop ELSE UNCHANGED << loopVars, cyc, call >>
         /\ ovs' = [ isInitialized |-> TRUE,
                     listeners |-> ovs.listeners + 1,
                     purges |-> ovs.purges + 1,
                     starts |-> ovs.starts + (IF isEnabled THEN 1 ELSE 0) ]
    /\ boot' = [ boot EXCEPT ![p] = [ pc |-> "done", ret |-> "returned" ] ]
    /\ UNCHANGED << db, database, initialized, lastWrite, permissionGranted >>
    /\ BootFrame

\* a step of the store for the dbService.initialize() of client p
BootStore(p) ==
    /\ boot[p].pc = "db"
    /\ DbOpen(p) \/ DbSchema(p) \/ DbInitPurge(p)
    /\ StoreFrame

InitBoot ==
    /\ InitClock
    /\ InitStore(FALSE)
    /\ InitLoop
    /\ InitStock
    /\ InitApp(FALSE)
    /\ InitAlert
    /\ watched = << >>
    /\ backgroundEnabled \in BOOLEAN
    /\ notificationsEnabled = FALSE
    /\ permissionGranted = FALSE
    /\ lastUpdate = Null
    /\ dataProvider = "unset"
    /\ apiKey = "null"
    /\ updateInterval = Null

NextBoot ==
    \/ \E p \in Clients :
         \/ BootCall(p)
         \/ BootStore(p)
         \/ BootDb(p)
         \/ BootPermissions(p)
         \/ BootSetup(p)
    \/ TimerFire
    \/ \E c \in Cycles : CycSymbols(c)

SpecBoot == InitBoot /\ [][NextBoot]_vars

\* C29: whatever the number of calls of initialize() and however they
\* overlap, the settings listeners are registered at most once, the daily
\* purge is scheduled at most once, and the loop is started by initialize()
\* at most once
C29_SetupOnce ==
    ovs.listeners <= 1 /\ ovs.purges <= 1 /\ ovs.starts <= 1

\* C29 (counterexample): two calls of initialize() have returned, the
\* second having begun while the first was awaiting; the listeners are
\* registered twice, the purge is scheduled twice, the loop was started twice
C29_SetupTwice ==
    /\ \A p \in Clients : boot[p] = [ pc |-> "done", ret |-> "returned" ]
    /\ ovs.isInitialized
    /\ ovs.listeners = 2 /\ ovs.purges = 2 /\ ovs.starts = 2

----------------------------------------------------------------------------
(* SettingsService: the setters.  SpecNotice: two clients each set one of
   the API key, the provider, the polling flag and the polling interval,
   their calls overlapping; OptionsVolumeService has registered its
   listeners. *)

SettingKeys == { "apiKey", "provider", "enabled", "interval" }

\* the values a setter is called with
SettingValues(key) ==
    CASE key = "apiKey" -> { "", "key" }
      [] key = "provider" -> { "dummy", "tiingo" }
      [] key = "enabled" -> BOOLEAN
      [] key = "interval" -> Intervals

\* the settings whose setter emits an event of settingsEvents
EmittingKeys == { "enabled", "interval" }

\* what a step of a setter leaves alone
SetterFrame ==
    UNCHANGED << clockVars, db, database, initialized, lastWrite, averages,
                 isInitialized, req, watched, backgroundEnabled,
                 notificationsEnabled, permissionGranted, lastUpdate, alertVars,
                 wl, seen, boot, ovs, screen >>

SetBusy(p) == sset[p].pc \notin { "idle", "done" }

\* setTiingoApiKey, setDataProvider, setOptionsVolumeEnabled or
\* setOptionsUpdateInterval is called: up to the await of AsyncStorage.setItem
SetCall(p) ==
    /\ ~SetBusy(p)
    /\ \E key \in SettingKeys : \E value \in SettingValues(key) :
         sset' = [ sset EXCEPT ![p] = [ IdleSet EXCEPT !.key = key, !.value = value,
                                                       !.pc = "write" ] ]
    /\ lastOp' = "step"
    /\ UNCHANGED << apiKey, dataProvider, volumeEnabled, updateInterval,
                    currentProvider, tasks, loopVars, cyc, call >>
    /\ SetterFrame

\* the event of the setting is emitted: the listener of the polling flag
\* starts or stops the loop, the listener of the interval runs up to its
\* await of isBackgroundEnabled()
Emit(key, value) ==
    CASE key = "enabled" ->
           /\ IF value THEN StartLoop /\ lastOp' = "start"
                       ELSE StopLoop /\ lastOp' = "stop"
           /\ UNCHANGED tasks
      [] key = "interval" ->
           /\ tasks' = tasks + 1
           /\ lastOp' = "step"
           /\ UNCHANGED << loopVars, cyc, call >>
      [] OTHER ->
           /\ lastOp' = "step"
           /\ UNCHANGED << tasks, loopVars, cyc, call >>

\* AsyncStorage.setItem has settled.  Its error is logged and rethrown.
\* Else the value is in storage; setOptionsVolumeEnabled and
\* setOptionsUpdateInterval emit their event and return; setTiingoApiKey
\* and setDataProvider await StockService.resetProvider()
SetSettled(p) ==
    /\ sset[p].pc = "write"
    /\ sset[p].key = "interval" => tasks < MaxTasks
    /\ \E ok \in BOOLEAN :
         LET key == sset[p].key
             value == sset[p].value IN
         IF ok
         THEN /\ apiKey' = IF key = "apiKey" THEN value ELSE apiKey
              /\ dataProvider' = IF key = "provider" THEN value ELSE dataProvider
              /\ volumeEnabled' = IF key = "enabled" THEN value ELSE volumeEnabled
              /\ updateInterval' = IF key = "interval" THEN value ELSE updateInterval
              /\ IF key \in EmittingKeys
                 THEN /\ Emit(key, value)
                      /\ sset' = [ sset EXCEPT ![p] =
                                     [ @ EXCEPT !.written = TRUE, !.notified = TRUE,
                                                !.pc = "done", !.ret = "returned" ] ]
                 ELSE /\ lastOp' = "step"
                      /\ UNCHANGED << tasks, loopVars, cyc, call >>
                      /\ sset' = [ sset EXCEPT ![p] =
                                     [ @ EXCEPT !.written = TRUE, !.pc = "reset" ] ]
         ELSE /\ sset' = [ sset EXCEPT ![p] =
                             [ @ EXCEPT !.pc = "done", !.ret = "thrown" ] ]
              /\ lastOp' = "step"
              /\ UNCHANGED << apiKey, dataProvider, volumeEnabled, updateInterval,
                              tasks, loopVars, cyc, call >>
    /\ UNCHANGED currentProvider
    /\ SetterFrame

\* StockService.resetProvider() has resolved, _currentProvider chosen from
\* the settings as they are in storage; the setter returns
SetReset(p) ==
    /\ sset[p].pc = "reset"
    /\ currentProvider' = IF IsUsingDummyProvider(dataProvider) THEN "dummy"
                          ELSE IF HasTiingoApiKey(apiKey) THEN "tiingo" ELSE "dummy"
    /\ sset' = [ sset EXCEPT ![p] = [ @ EXCEPT !.reset = TRUE, !.pc = "done",
                                               !.ret = "returned" ] ]
    /\ lastOp' = "step"
    /\ UNCHANGED << apiKey, dataProvider, volumeEnabled, updateInterval,
                    tasks, loopVars, cyc, call >>
    /\ SetterFrame

NextNotice ==
    \/ \E p \in Clients :
         \/ sset[p].pc = "idle" /\ SetCall(p)
         \/ SetSettled(p)
         \/ SetReset(p)
    \/ IntervalListener
    \/ TimerFire
    \/ \E c \in Cycles : CycSymbols(c)

SpecNotice == InitLoopOnly /\ [][NextNotice]_vars

\* the value of the setting, as it is in storage
Stored(key) ==
    CASE key = "apiKey" -> apiKey
      [] key = "provider" -> dataProvider
      [] key = "enabled" -> volumeEnabled
      [] key = "interval" -> updateInterval

\* the step in which the setter of client p notifies, or ends
Notifies(p) == ~sset[p].notified /\ sset'[p].notified
Ends(p) == SetBusy(p) /\ ~SetBusy(p)'

\* C24: a setter notifies the subscribers of its setting only in a step
\* that leaves its value in storage, and not before; a setter that returns
\* has written the value and has notified; a setter whose write failed has
\* notified nobody and has thrown to its caller
C24_SetNotifies ==
    [][ \A p \in Clients :
          /\ Notifies(p) => sset'[p].written /\ Stored(sset[p].key)' = sset[p].value
          /\ (Ends(p) /\ sset'[p].ret = "returned") =>
                sset'[p].written /\ sset'[p].notified
          /\ (Ends(p) /\ ~sset'[p].written) =>
                sset'[p].ret = "thrown" /\ ~sset'[p].notified
      ]_vars

----------------------------------------------------------------------------
(* The Watchlist screen.  SpecScreen: the screen is mounted and unmounted,
   loads its list from storage, hears of symbols added on the Explore
   screen, and its refresh timer fires. *)

\* the bounds on the callbacks of the refresh timer within one mount and on
\* the getBatchQuotes requests in flight
MaxScreenTicks == 2
MaxPending == 2

\* setInterval(..., 300000)
RefreshPeriod == 5 * MINUTE

DEFAULT_SYMBOLS == << "AAPL", "MSFT", "GOOGL", "AMZN", "META" >>

\* what AsyncStorage may hold under watchlist_symbols when the app starts
StoredLists ==
    { NothingStored } \cup
    { StoredList(l) : l \in { << >>, << "AAPL" >>, << "AAPL", "MSFT" >> } }

\* what a step of the screen leaves alone
ScreenFrame ==
    /\ lastOp' = "step"
    /\ UNCHANGED << ticks, storeVars, stockVars, settingVars, lastUpdate,
                    loopVars, cyc, tasks, alertVars,
                    wl, seen, sset, volumeEnabled, boot, ovs >>

\* loadWatchlistSymbols: the stored list, or the default symbols if nothing
\* is stored or the read failed
LoadWatchlistSymbols(stored, ok) ==
    IF ok /\ stored.present THEN stored.symbols ELSE DEFAULT_SYMBOLS

\* refreshWatchlistData(symbols): nothing to fetch for an empty list
\* (setStocks([])), else StockService.getBatchQuotes(symbols) is awaited
RefreshWatchlistData(sc, symbols) ==
    IF Len(symbols) = 0
    THEN [ sc EXCEPT !.stocks = << >> ]
    ELSE [ sc EXCEPT !.pending = Append(@, symbols) ]

\* a callback that sees the watchlist as the component has it now
CurrentState(sc) == sc.watchlistSymbols

\* watchlistSymbols as the callback of setInterval sees it: the effect has
\* no dependencies, so the callback is the one of the first render
SeenByTimer(sc) == sc.closure

\* the component mounts: first render with the initial state, then the
\* effect: fetchWatchlistData() up to its await, the listener of
\* 'watchlistUpdated', setInterval
ScreenMount ==
    /\ ~screen.mounted
    /\ screen' = [ NoScreen EXCEPT !.mounted = TRUE, !.stored = screen.stored,
                                   !.closure = NoScreen.watchlistSymbols ]
    /\ UNCHANGED now
    /\ ScreenFrame

\* loadWatchlistSymbols() has resolved: setWatchlistSymbols(symbols);
\* refreshWatchlistData(symbols)
ScreenLoaded ==
    /\ screen.mounted /\ ~screen.loaded
    /\ Len(screen.pending) < MaxPending
    /\ \E ok \in BOOLEAN :
         LET symbols == LoadWatchlistSymbols(screen.stored, ok) IN
         screen' = RefreshWatchlistData(
                       [ screen EXCEPT !.loaded = TRUE, !.watchlistSymbols = symbols ],
                       symbols)
    /\ UNCHANGED now
    /\ ScreenFrame

\* the Explore screen has added symbol: it read the stored list, pushed the
\* symbol, wrote the list and emitted 'watchlistUpdated'; the listener of a
\* mounted Watchlist screen sets its state and refreshes
ExploreAdd(symbol) ==
    /\ Len(screen.pending) < MaxPending
    /\ LET list == IF screen.stored.present THEN screen.stored.symbols ELSE << >>
           symbols == Append(list, symbol) IN
       /\ ~Watches(list, symbol)
       /\ screen' = IF screen.mounted
                    THEN RefreshWatchlistData(
                             [ screen EXCEPT !.stored = StoredList(symbols),
                                             !.watchlistSymbols = symbols ],
                             symbols)
                    ELSE [ screen EXCEPT !.stored = StoredList(symbols) ]
    /\ UNCHANGED now
    /\ ScreenFrame

\* the callback of the refresh timer runs, RefreshPeriod after the one
\* before (the clock of the services plays no part here): if (watchlistSymbols.length > 0) refreshWatchlistData()
ScreenTick ==
    /\ screen.mounted
    /\ screen.ticks < MaxScreenTicks
    /\ Len(screen.pending) < MaxPending
    /\ LET symbols == SeenByTimer(screen)
           sc == [ screen EXCEPT
                     !.ticks = @ + 1,
                     !.due = @ + (IF Len(screen.watchlistSymbols) > 0 THEN 1 ELSE 0),
                     !.refetched = @ + (IF Len(symbols) > 0 THEN 1 ELSE 0) ] IN
       screen' = IF Len(symbols) > 0 THEN RefreshWatchlistData(sc, symbols) ELSE sc
    /\ UNCHANGED now
    /\ ScreenFrame

\* a getBatchQuotes request has settled: setStocks(stockData), or the error
\* is logged
ScreenQuotes ==
    /\ screen.pending # << >>
    /\ \E ok \in BOOLEAN :
         screen' = [ screen EXCEPT
                       !.pending = Tail(@),
                       !.stocks = IF ok /\ screen.mounted
                                  THEN Head(screen.pending) ELSE @ ]
    /\ UNCHANGED now
    /\ ScreenFrame

\* the component unmounts: clearInterval, the listener is removed
ScreenUnmount ==
    /\ screen.mounted
    /\ screen' = [ screen EXCEPT !.mounted = FALSE ]
    /\ UNCHANGED now
    /\ ScreenFrame

InitScreen ==
    /\ InitClock
    /\ InitStore(TRUE)
    /\ InitLoop
    /\ InitStock
    /\ InitCallers(TRUE)
    /\ InitAlert
    /\ screen \in { [ NoScreen EXCEPT !.stored = l ] : l \in StoredLists }
    /\ watched = << >>
    /\ backgroundEnabled = FALSE
    /\ notificationsEnabled = FALSE
    /\ permissionGranted = TRUE
    /\ lastUpdate = Null
    /\ dataProvider = "unset"
    /\ apiKey = "null"
    /\ updateInterval = Null

NextScreen ==
    \/ ScreenMount
    \/ ScreenLoaded
    \/ \E symbol \in Symbols : ExploreAdd(symbol)
    \/ ScreenTick
    \/ ScreenQuotes
    \/ ScreenUnmount

SpecScreen == InitScreen /\ [][NextScreen]_vars

\* the step is a callback of the refresh timer
TimerCallback == screen'.ticks = screen.ticks + 1

\* C25: the refresh timer has a period of five minutes, and while the
\* screen is mounted and its watchlist is not empty, every callback of the
\* timer asks for the quotes of the symbols that are in the watchlist then
C25_TickRefetchesWatchlist ==
    [][ (TimerCallback /\ screen.mounted /\ Len(screen.watchlistSymbols) > 0) =>
          /\ RefreshPeriod = 5 * MINUTE
          /\ screen'.pending = Append(screen.pending, screen.watchlistSymbols)
      ]_vars

\* C25 (counterexample): the screen is mounted with the two stored symbols
\* loaded and shown; the timer has fired twice and has asked for nothing
C25_TimerNeverRefetches ==
    /\ screen.mounted /\ screen.loaded
    /\ screen.watchlistSymbols = << "AAPL", "MSFT" >>
    /\ screen.stocks = << "AAPL", "MSFT" >>
    /\ screen.ticks = 2 /\ screen.due = 2
    /\ screen.refetched = 0 /\ screen.pending = << >>
=============================================================================
